---- MODULE Spec2Model ----
(***************************************************************************)
(* Cube Builder AWS (cube_builder_aws/maestro.py): the work-tracking state *)
(* machine of the MERGE -> BLEND -> POSBLEND -> PUBLISH pipeline.          *)
(*                                                                         *)
(* Strings of the program (keys, dates, band names) are modelled as        *)
(* tokens; a key built by concatenation is the sequence of its tokens, and *)
(* str.replace acts on whole tokens.                                       *)
(***************************************************************************)
EXTENDS Integers, Sequences, FiniteSets, Bags, TLC

\* ------------------------------------------------------------------ bounds

\* prepare_merge runs in one behaviour
MaxRuns == 2
\* faults in one behaviour: messages the queue delivers a second time
\* (at-least-once delivery) plus worker invocations in which something fails
MaxFaults == 1
\* records on the stream that solo has not consumed yet
MaxStream == 1
\* stage transitions (fan-outs of next_step) beyond the first one out of a stage,
\* after one call of prepare_merge
MaxRefires == 0
\* completions that observed their stage complete and have not fanned out yet
MaxPending == 1
\* faults in one behaviour of the MERGE stage taken alone
MaxMergeFaults == 2

\* ------------------------------------------------------- cube descriptor

DATACUBE == "dc"
IRREGULAR == "idc"
TILE == "t1"
QUALITY == "Q"
\* bands of the cube, in order; the quality band is one of them
BANDS == <<"B1", QUALITY>>
\* prepare_merge: activity['internal_bands']
INTERNAL_BANDS == <<"CLEAROB", "TOTALOB", "PROVENANCE">>
FUNCTIONS == <<"IDT", "STK", "MED">>
\* the one index of bands_expressions, when indexes are configured
INDEX == "NDVI"
\* the periods of self.score['items'][tile]['periods'], in iteration order
PERIODS == <<"p1", "p2">>
PStart(p) == IF p = "p1" THEN "s1" ELSE "s2"
PEnd(p) == IF p = "p1" THEN "e1" ELSE "e2"
\* the dates a scene search may return for a period
DatesOf(p) == IF p = "p1" THEN {"d1"} ELSE {"d2"}

\* a key of a dict that was never set
Missing == "(missing)"
\* the result of an expression that raised KeyError
KeyError == <<"KeyError">>

Range(f) == {f[x] : x \in DOMAIN f}
SeqOfSet(S) == CHOOSE s \in [1..Cardinality(S) -> S] : Range(s) = S

\* the catalogs of the model: what search_STAC returns for each period
Catalogs ==
    { [p \in Range(PERIODS) |-> IF p = q THEN DatesOf(p) ELSE {}] : q \in Range(PERIODS) }

VARIABLES
    catalog,    \* period -> dates with scenes (the STAC catalog, fixed in a behaviour)
    exprs,      \* index names of bands_expressions
    regular,    \* indexes_only_regular_cube
    control,    \* activitiesControlTable: key -> [mycount, total, errors]
    acts,       \* activitiesTable: <<dynamoKey, sk>> -> activity
    sqs,        \* bag of activities waiting for a worker
    stream,     \* Kinesis: <<dynamoKey, sk>> -> activities waiting for solo, in order
    s3,         \* keys of the objects in the bucket
    pending,    \* bag of activities whose next_step observed the stage complete
    run,        \* the prepare_merge run: [n, pc, force, activity, not_started]
    dups,       \* messages delivered twice so far
    fails,      \* worker invocations in which something failed so far
    fanouts,    \* control key -> stage transitions since the last call of prepare_merge
    redelivery, \* the message the queue is delivering a second time, if any
    rewritten,  \* history: control keys whose row a put_control_table lowered
    calls,      \* history: control key -> (<<dynamoKey, sk>> -> next_step calls since the row was put)
    fired,      \* history: control key -> transitions fired out of that stage since the row was put
    crashed,    \* history: an exception left a stage function (the invocation crashed)
    assets,     \* the catalog: item name -> names of the assets publish registered
    blend_in,   \* one pixel of a blend: [band, mask, scenes], the inputs at that pixel
    blend_px,   \* one pixel of a blend: the arrays of blend at that pixel
    merge_in,   \* one pixel of a merge: [band, satellite, mask_nodata, links]
    merge_px,   \* one pixel of a merge: the arrays of merge_warped at that pixel
    call_in,    \* one call of a function checked on its own: its arguments
    call_st     \* one call of a function checked on its own: its locals and position

\* the stores and the handlers
pipeline == <<catalog, exprs, regular, control, acts, sqs, stream, s3, pending, run, dups,
              fails, fanouts, redelivery, rewritten, calls, fired, crashed, assets>>
\* the raster arithmetic of one pixel, and the functions checked on their own
pixels == <<blend_in, blend_px, merge_in, merge_px, call_in, call_st>>

vars == <<pipeline, pixels>>

\* ------------------------------------------------------------- activities

\* the fields of an activity dict the pipeline reads; Missing marks an unset key;
\* indexes holds the keys of indexesToBe, scenes the keys of activity['scenes'] and
\* ARDfiles the keys of scene['ARDfiles']
NewActivity ==
    [action |-> Missing, datacube |-> DATACUBE, irregular_datacube |-> IRREGULAR,
     tileid |-> Missing, start |-> Missing, end |-> Missing, period |-> Missing,
     band |-> Missing, dataset |-> Missing, date |-> Missing, date_formated |-> Missing,
     dynamoKey |-> <<>>, sk |-> <<>>, mystatus |-> Missing,
     instancesToBeDone |-> 0, totalInstancesToBeDone |-> 0,
     force |-> FALSE, list_dates |-> <<>>, scenes |-> {}, ARDfiles |-> {},
     internal_band |-> Missing, bands_expressions |-> {},
     indexes_only_regular_cube |-> FALSE, indexesToBe |-> Missing, indexes |-> {},
     shape |-> FALSE, ARDfile |-> <<>>, IDTfile |-> <<>>, STKfile |-> <<>>,
     MEDfile |-> <<>>, errors |-> Missing, source_nodata |-> Missing]

\* utils.processing.encode_key: the concatenation of activity[k], k in keylist
encode_key(activity, keylist) ==
    [i \in 1..Len(keylist) |-> activity[keylist[i]]]

RECURSIVE Replace(_, _, _)
\* str.replace(old, new) on a key: every token equal to old becomes the tokens of new
Replace(key, old, new) ==
    IF key = <<>> THEN <<>>
    ELSE (IF Head(key) = old THEN new ELSE <<Head(key)>>) \o Replace(Tail(key), old, new)

get_key_to_controltable(activity) ==
    IF activity.dynamoKey = <<>> THEN KeyError
    ELSE IF activity.action # "publish" /\ activity.band = Missing THEN KeyError
    ELSE LET k1 == IF activity.action # "publish"
                   THEN Replace(activity.dynamoKey, activity.band, <<>>)
                   ELSE activity.dynamoKey
         IN IF activity.action = "merge"
            THEN (IF activity.date = Missing \/ activity.start = Missing
                     \/ activity.end = Missing
                  THEN KeyError
                  ELSE Replace(k1, activity.date, <<activity.start, activity.end>>))
            ELSE k1

ActId(activity) == <<activity.dynamoKey, activity.sk>>

\* ------------------------------------------------- services (the stores)
\* A store state st is [control, acts, sqs, stream, s3, rewritten, calls, fired]; the
\* producers only read s3.

Has(f, x) == x \in DOMAIN f
Drop(f, x) == [y \in DOMAIN f \ {x} |-> f[y]]
Set(f, x, v) == (x :> v) @@ f
Get(f, x, default) == IF x \in DOMAIN f THEN f[x] ELSE default

\* services.put_control_table(key, count, total, date)
put_control_table(st, key, count, total) ==
    [st EXCEPT !.control = Set(@, key, [mycount |-> count, total |-> total, errors |-> 0]),
               !.rewritten = IF Has(st.control, key) /\ st.control[key].mycount > count
                             THEN @ \cup {key} ELSE @,
               !.calls = Set(@, key, <<>>),
               !.fired = Set(@, key, 0)]

\* services.remove_control_by_key(key): deleteByKey of the counter table
remove_control_by_key(st, key) ==
    [st EXCEPT !.control = Drop(@, key), !.calls = Drop(@, key), !.fired = Drop(@, key)]

\* services.get_activity_item({'id': id, 'sk': sk}): 'Item' in response
HasItem(st, id, sk) == Has(st.acts, <<id, sk>>)
Item(st, id, sk) == st.acts[<<id, sk>>]

\* services.get_activities_by_key(id): the items of every sk under id
get_activities_by_key(st, id) == {st.acts[k] : k \in {k \in DOMAIN st.acts : k[1] = id}}

\* services.remove_activity_by_key(id, sk)
remove_activity_by_key(st, id, sk) == [st EXCEPT !.acts = Drop(@, <<id, sk>>)]

\* services.put_activity(activity)
put_activity(st, activity) == [st EXCEPT !.acts = Set(@, ActId(activity), activity)]

\* services.put_item_kinesis(activity): the record goes to the stream, whose
\* consumer is solo; the records of one (dynamoKey, sk) are consumed in order.
\* For a NOTDONE record solo only calls put_activity: with no older record of the
\* activity in flight it is written at once.
put_item_kinesis(st, activity) ==
    LET id == ActId(activity)
    IN IF activity.mystatus = "NOTDONE" /\ ~Has(st.stream, id)
       THEN put_activity(st, activity)
       ELSE [st EXCEPT !.stream = Set(@, id, Append(Get(@, id, <<>>), activity))]

\* services.send_to_sqs(activity)
send_to_sqs(st, activity) == [st EXCEPT !.sqs = @ (+) SetToBag({activity})]

\* s3_file_exists(key)
s3_file_exists(st, key) == key \in st.s3

\* ---------------------------------------------------------------- counter

\* a faulty counter that takes one away instead of adding one;
\* C5_ResetOnlyByProducers tells it from update_control_table
update_control_table_down(st, key, id) ==
    IF ~Has(st.control, key) THEN st
    ELSE [st EXCEPT !.control[key].mycount = @ - 1,
                    !.calls[key] = Set(@, id, Get(@, id, 0) + 1)]

\* services.update_control_table(SET mycount = mycount + 1), ReturnValues UPDATED_NEW:
\* one atomic add-and-return; a key with no row returns no Attributes
update_control_table(st, key, id) ==
    IF ~Has(st.control, key) THEN st
    ELSE [st EXCEPT !.control[key].mycount = @ + 1,
                    !.calls[key] = Set(@, id, Get(@, id, 0) + 1)]

\* solo: services.update_control_table(ADD errors 1)
increment_errors(st, key) ==
    IF ~Has(st.control, key) THEN st
    ELSE [st EXCEPT !.control[key].errors = @ + 1]

\* next_step: the test that fires the stage transition
Fires(mycount, activity) == mycount >= activity.totalInstancesToBeDone

RECURSIVE next_step(_, _)
RECURSIVE stage_transition(_, _)

\* ------------------------------------------------------------------ BLEND

BlendFile(function, b) == <<function, b.tileid, b.start, b.end, b.band>>
\* '_'.join(key.split('_')[:-1]) + '_NAME.tif': the key with its band replaced
WithBand(key, name) == IF key = <<>> THEN <<>> ELSE [key EXCEPT ![Len(key)] = name]

fill_blend(st, mergeactivity, blendactivity, internal_band) ==
    LET band == blendactivity.band
        dates == Range(mergeactivity.list_dates)
        b0 == [blendactivity EXCEPT
                 !.instancesToBeDone = 0,
                 !.internal_band = IF internal_band # Missing /\ dates # {}
                                   THEN internal_band ELSE @]
        keyOf(date) == encode_key([mergeactivity EXCEPT !.date_formated = date],
                           <<"action", "irregular_datacube", "tileid", "date_formated", "band">>)
        items == UNION {get_activities_by_key(st, keyOf(d)) : d \in dates}
    IN IF \E d \in dates : get_activities_by_key(st, keyOf(d)) = {}
       THEN [ok |-> FALSE, blend |-> b0]
       ELSE IF \E item \in items : item.mystatus # "DONE"
       THEN [ok |-> FALSE, blend |-> b0]
       ELSE LET b1 == [b0 EXCEPT !.scenes = @ \cup {item.sk[1] : item \in items},
                                 !.ARDfiles = IF items = {} THEN @ ELSE @ \cup {band},
                                 !.instancesToBeDone = Cardinality(items)]
            IN [ok |-> TRUE,
                blend |-> IF band # QUALITY
                          THEN [b1 EXCEPT !.IDTfile = BlendFile("IDT", b1),
                                          !.STKfile = BlendFile("STK", b1),
                                          !.MEDfile = BlendFile("MED", b1)]
                          ELSE [b1 EXCEPT !.STKfile = BlendFile("STK", b1)]]

FileField(activity, function) ==
    CASE function = "STK" -> activity.STKfile
      [] function = "MED" -> activity.MEDfile
      [] OTHER -> activity.IDTfile

\* next_blend, lines 602-618: the files the skip test looks for
BlendSkipFunctions(name) ==
    {f \in Range(FUNCTIONS) : ~(f = "IDT" \/ (f = "MED" /\ name = "PROVENANCE"))}

\* one pass of the loop of next_blend over bands + internal_bands;
\* acc is [st, m, b, crash]: the stores, mergeactivity, blendactivity, an exception
next_blend_band(acc, name) ==
    IF acc.crash THEN acc
    ELSE
    LET internal == name \in Range(INTERNAL_BANDS)
        band == IF internal THEN BANDS[1] ELSE name
        m1 == [acc.m EXCEPT !.band = band]
        r == fill_blend(acc.st, m1, [acc.b EXCEPT !.band = band],
                        IF internal THEN name ELSE Missing)
        b2 == [r.blend EXCEPT !.sk = <<name>>]
        found == HasItem(acc.st, b2.dynamoKey, b2.sk)
        item == Item(acc.st, b2.dynamoKey, b2.sk)
        seen == found /\ item.mystatus = "DONE"
                    /\ item.instancesToBeDone = b2.instancesToBeDone
        keyerror == seen /\ \E f \in BlendSkipFunctions(name) : FileField(b2, f) = <<>>
        exists == \A f \in BlendSkipFunctions(name) : s3_file_exists(acc.st, FileField(b2, f))
    IN IF keyerror THEN [acc EXCEPT !.m = m1, !.b = b2, !.crash = TRUE]
       ELSE IF seen /\ ~b2.force /\ exists
       THEN [acc EXCEPT !.st = next_step(acc.st, item), !.m = m1, !.b = b2]
       ELSE LET st1 == IF seen THEN remove_activity_by_key(acc.st, b2.dynamoKey, b2.sk)
                       ELSE acc.st
                b3 == [b2 EXCEPT !.mystatus = "NOTDONE"]
                st2 == send_to_sqs(put_item_kinesis(st1, b3), b3)
            IN [acc EXCEPT !.st = st2, !.m = m1,
                           !.b = [b3 EXCEPT !.ARDfiles = IF band # QUALITY
                                                         THEN @ \ {band} ELSE @]]

RECURSIVE next_blend_loop(_, _)
next_blend_loop(acc, names) ==
    IF names = <<>> THEN acc
    ELSE next_blend_loop(next_blend_band(acc, Head(names)), Tail(names))

\* a next_blend that expects the bands of the cube only; C28_OnePerBand tells it
\* from blend_total
blend_total_bands(blendactivity) ==
    Len(BANDS)

\* next_blend, line 557: totalInstancesToBeDone of the BLEND stage
blend_total(blendactivity) ==
    Len(BANDS) + Len(INTERNAL_BANDS)

\* a next_blend that has not written the counter row when it enqueues the
\* activities; C37_RowBeforeActivities tells it from next_blend_row
next_blend_row_after(st, blendactivity) == st

\* the counter row of the BLEND stage, put before the loop over the bands
next_blend_row(st, blendactivity) ==
    put_control_table(st, blendactivity.dynamoKey, 0, blendactivity.totalInstancesToBeDone)

next_blend(st, mergeactivity) ==
    LET b0 == [NewActivity EXCEPT
                 !.action = "blend",
                 !.tileid = mergeactivity.tileid, !.start = mergeactivity.start,
                 !.end = mergeactivity.end, !.period = mergeactivity.period,
                 !.force = mergeactivity.force,
                 !.bands_expressions = mergeactivity.bands_expressions,
                 !.indexes_only_regular_cube = mergeactivity.indexes_only_regular_cube,
                 !.totalInstancesToBeDone = blend_total(mergeactivity)]
        b1 == [b0 EXCEPT !.dynamoKey = encode_key(b0,
                             <<"action", "datacube", "tileid", "start", "end">>),
                         !.band = QUALITY]
        m1 == [mergeactivity EXCEPT !.band = QUALITY]
        r == fill_blend(st, m1, b1, Missing)
        st1 == next_blend_row(st, b1)
    IN IF ~r.ok \/ r.blend.instancesToBeDone = 0
       THEN put_item_kinesis(st1, [r.blend EXCEPT !.sk = <<"ALLBANDS">>,
                                                  !.mystatus = "ERROR",
                                                  !.errors = "next_blend"])
       ELSE next_blend_loop([st |-> st1, m |-> m1, b |-> r.blend, crash |-> FALSE],
                            BANDS \o INTERNAL_BANDS).st

\* --------------------------------------------------------------- POSBLEND

\* bands_expressions[INDEX]['expression']['bands'], as band names
ExprBands == <<"B1">>

\* next_posblend, lines 1019-1050: the exception of building indexesToBe, if any
IndexInputsRaise(st, blend_dynamo_key, posblendactivity) ==
    posblendactivity.bands_expressions # {}
    /\ \E i \in 1..Len(ExprBands) :
         \/ ~HasItem(st, blend_dynamo_key, <<ExprBands[i]>>)
         \/ LET activity == Item(st, blend_dynamo_key, <<ExprBands[i]>>)
            IN \E f \in Range(FUNCTIONS) :
                 IF f = "IDT"
                 THEN /\ ~posblendactivity.indexes_only_regular_cube
                      /\ activity.scenes # {}
                      /\ ExprBands[i] \notin activity.ARDfiles
                 ELSE FileField(activity, f) = <<>>

\* the dates of the blend activity read last in lines 1025-1031
LastInputDates(st, blend_dynamo_key) ==
    SeqOfSet(Item(st, blend_dynamo_key, <<ExprBands[Len(ExprBands)]>>).scenes)

RECURSIVE emit_dates(_, _, _, _)
\* next_posblend, lines 1078-1086: one activity per date
emit_dates(st, p, i_name, dates) ==
    IF dates = <<>> THEN st
    ELSE LET a == [p EXCEPT !.sk = <<i_name, "IDT", Head(dates)>>]
         IN emit_dates(send_to_sqs(put_item_kinesis(st, a), a), a, i_name, Tail(dates))

\* one pass of the inner loop of next_posblend (lines 1056-1089); acc is [st, p]
next_posblend_target(acc, i_name, i, blend_dynamo_key) ==
    LET p1 == [acc.p EXCEPT !.sk = IF i = "" THEN <<i_name>> ELSE <<i_name, i>>,
                            !.mystatus = "NOTDONE"]
        found == HasItem(acc.st, p1.dynamoKey, p1.sk)
        item == Item(acc.st, p1.dynamoKey, p1.sk)
        seen == found /\ item.mystatus = "DONE"
                    /\ item.instancesToBeDone = p1.instancesToBeDone
    IN IF seen /\ ~p1.force
       THEN [st |-> next_step(acc.st, item), p |-> p1]
       ELSE LET st1 == IF seen THEN remove_activity_by_key(acc.st, p1.dynamoKey, p1.sk)
                       ELSE acc.st
            IN IF i = "IDT"
               THEN LET dates == LastInputDates(acc.st, blend_dynamo_key)
                    IN [st |-> emit_dates(st1, p1, i_name, dates),
                        p |-> IF dates = <<>> THEN p1
                              ELSE [p1 EXCEPT !.sk = <<i_name, "IDT", dates[Len(dates)]>>]]
               ELSE [st |-> send_to_sqs(put_item_kinesis(st1, p1), p1), p |-> p1]

RECURSIVE next_posblend_loop(_, _, _, _)
next_posblend_loop(acc, i_name, functions, blend_dynamo_key) ==
    IF functions = <<>> THEN acc
    ELSE next_posblend_loop(next_posblend_target(acc, i_name, Head(functions), blend_dynamo_key),
                            i_name, Tail(functions), blend_dynamo_key)

RECURSIVE next_posblend_indexes(_, _, _)
next_posblend_indexes(acc, names, blend_dynamo_key) ==
    IF names = <<>> THEN acc
    ELSE next_posblend_indexes(
             next_posblend_loop(acc, Head(names),
                 IF acc.p.indexes_only_regular_cube THEN <<"">> ELSE <<"", "IDT">>,
                 blend_dynamo_key),
             Tail(names), blend_dynamo_key)

\* a next_posblend that expects one activity per index whatever the cube;
\* C32_PosblendTotal tells it from quantity_scenes
quantity_scenes_regular(posblendactivity) ==
    1

\* next_posblend, line 1006: indexes * (irregular scenes + regular scene)
quantity_scenes(posblendactivity) ==
    IF posblendactivity.indexes_only_regular_cube THEN 1
    ELSE Cardinality(posblendactivity.scenes) + 1

next_posblend(st, blendactivity) ==
    LET blend_dynamo_key == blendactivity.dynamoKey
        p0 == [blendactivity EXCEPT
                 !.action = "posblend",
                 !.totalInstancesToBeDone =
                     Cardinality(blendactivity.bands_expressions)
                         * quantity_scenes(blendactivity),
                 !.dynamoKey = IF "posblend" \in Range(@) THEN @
                               ELSE Replace(blend_dynamo_key, "blend", <<"posblend">>)]
        st1 == put_control_table(st, p0.dynamoKey, 0, p0.totalInstancesToBeDone)
    IN IF IndexInputsRaise(st1, blend_dynamo_key, p0) THEN st1
       ELSE next_posblend_indexes([st |-> st1, p |-> [p0 EXCEPT !.indexesToBe = "set",
                                                            !.indexes = p0.bands_expressions]],
                                  SeqOfSet(p0.bands_expressions), blend_dynamo_key).st

\* ---------------------------------------------------------------- PUBLISH

\* next_publish, lines 1183-1244: the exception of building the activity, if any
PublishInputsRaise(st, posblendactivity) ==
    \/ posblendactivity.indexesToBe = Missing
    \/ \E item \in get_activities_by_key(st,
                      Replace(posblendactivity.dynamoKey, "posblend", <<"blend">>)) :
         /\ item.sk[1] \in Range(BANDS)
         /\ \/ item.scenes # {} /\ ~({QUALITY, item.sk[1]} \subseteq item.ARDfiles)
            \/ \E f \in Range(FUNCTIONS) :
                 /\ f # "IDT" /\ ~(f = "MED" /\ item.sk[1] = QUALITY)
                 /\ FileField(item, f) = <<>>

next_publish(st, posblendactivity) ==
    IF PublishInputsRaise(st, posblendactivity) THEN st
    ELSE
    LET \* lines 1183-1211: the scenes of the blended bands and their files
        blended == {item \in get_activities_by_key(st,
                        Replace(posblendactivity.dynamoKey, "posblend", <<"blend">>)) :
                      item.sk[1] \in Range(BANDS)}
        dates == UNION {item.scenes : item \in blended}
        a0 == [NewActivity EXCEPT
                 !.action = "publish",
                 !.tileid = posblendactivity.tileid, !.start = posblendactivity.start,
                 !.end = posblendactivity.end, !.period = posblendactivity.period,
                 !.indexesToBe = posblendactivity.indexesToBe,
                 !.indexes = posblendactivity.indexes,
                 !.scenes = dates,
                 !.ARDfiles = IF dates = {} THEN {}
                              ELSE {QUALITY}
                                   \cup {item.sk[1] : item \in {b \in blended : b.scenes # {}}}
                                   \cup (IF posblendactivity.indexes_only_regular_cube
                                         THEN {} ELSE posblendactivity.indexes),
                 !.indexes_only_regular_cube = posblendactivity.indexes_only_regular_cube,
                 !.force = posblendactivity.force]
        a1 == [a0 EXCEPT !.dynamoKey = encode_key(a0,
                             <<"action", "datacube", "tileid", "start", "end">>),
                         !.sk = <<"ALLBANDS">>, !.mystatus = "NOTDONE",
                         !.instancesToBeDone = Len(BANDS) - 1,
                         !.totalInstancesToBeDone = 1]
        st1 == put_control_table(st, a1.dynamoKey, 0, a1.totalInstancesToBeDone)
        found == HasItem(st1, a1.dynamoKey, <<"ALLBANDS">>)
        item == Item(st1, a1.dynamoKey, <<"ALLBANDS">>)
        done == found /\ item.mystatus = "DONE"
    IN IF done /\ ~a1.force THEN next_step(st1, item)
       ELSE LET st2 == IF done THEN remove_activity_by_key(st1, a1.dynamoKey, <<"ALLBANDS">>)
                       ELSE st1
            IN send_to_sqs(put_item_kinesis(st2, a1), a1)

\* -------------------------------------------------------------- next_step

\* next_step, lines 167-178: the transition into the next stage
stage_transition(st, activity) ==
    LET key == get_key_to_controltable(activity)
        st1 == IF Has(st.fired, key) THEN [st EXCEPT !.fired[key] = @ + 1] ELSE st
    IN CASE activity.action = "merge" -> next_blend(st1, activity)
         [] activity.action = "blend" ->
              IF activity.bands_expressions # {}
              THEN next_posblend(st1, activity)
              ELSE next_publish(st1, activity)
         [] activity.action = "posblend" -> next_publish(st1, activity)
         [] OTHER -> st1

next_step(st, activity) ==
    LET key == get_key_to_controltable(activity)
        st1 == update_control_table(st, key, ActId(activity))
    IN IF Has(st1.control, key) /\ Fires(st1.control[key].mycount, activity)
       THEN stage_transition(st1, activity)
       ELSE st1

\* ------------------------------------------------------------------ MERGE

MergeFile(activity) == <<"ARD", activity.tileid, activity.date, activity.band>>

\* date[0:10]: a key that carries a time of day after the date loses it
Date10(date) ==
    CASE date = "d1T" -> "d1"
      [] OTHER -> date

\* the source_nodata the scenes of a band declare, Missing when they declare
\* none: the scenes of B1 declare "0", those of the quality band nothing
SceneNodata(band) == IF band = "B1" THEN "0" ELSE Missing

\* prepare_merge, lines 316-318: activity['source_nodata'] after the scenes of
\* one date of a band, from its value before
scene_source_nodata(source_nodata, band) ==
    IF SceneNodata(band) # Missing THEN SceneNodata(band) ELSE source_nodata

\* a catalog of scenes is the dict scenes[band][dataset][date] in the order of its
\* keys: a sequence of <<band, datasets>>, datasets a sequence of
\* <<dataset, dates>>, dates a sequence of date keys

RECURSIVE dataset_dates(_)
\* prepare_merge, lines 269-276: the dates of every dataset of a band, in order
dataset_dates(datasets) ==
    IF datasets = <<>> THEN <<>>
    ELSE Head(datasets)[2] \o dataset_dates(Tail(datasets))

\* prepare_merge, lines 326-345: one (band, dataset, date); acc is [st, a]
prepare_merge_date(acc, band, date) ==
    LET a0 == [acc.a EXCEPT !.date = Date10(date),
                            !.source_nodata = scene_source_nodata(@, band)]
        a1 == [a0 EXCEPT !.dynamoKey = encode_key(a0,
                             <<"action", "irregular_datacube", "tileid", "date", "band">>)]
        a2 == [a1 EXCEPT !.ARDfile = <<"ARD", a1.tileid, a1.date, band>>,
                         !.sk = <<a1.date>>]
        found == HasItem(acc.st, a2.dynamoKey, a2.sk)
        item == Item(acc.st, a2.dynamoKey, a2.sk)
    IN IF found /\ ~a2.force /\ item.mystatus = "DONE" /\ s3_file_exists(acc.st, a2.ARDfile)
       THEN [st |-> next_step(acc.st, a2), a |-> a2]
       ELSE LET st1 == IF found THEN remove_activity_by_key(acc.st, a2.dynamoKey, a2.sk)
                       ELSE acc.st
                a3 == [a2 EXCEPT !.mystatus = "NOTDONE"]
            IN [st |-> send_to_sqs(put_item_kinesis(st1, a3), a3), a |-> a3]

RECURSIVE prepare_merge_dates(_, _, _)
prepare_merge_dates(acc, band, dates) ==
    IF dates = <<>> THEN acc
    ELSE prepare_merge_dates(prepare_merge_date(acc, band, Head(dates)), band, Tail(dates))

RECURSIVE prepare_merge_datasets(_, _, _)
\* prepare_merge, lines 301-306: for dataset in scenes[band]
prepare_merge_datasets(acc, band, datasets) ==
    IF datasets = <<>> THEN acc
    ELSE prepare_merge_datasets(
             prepare_merge_dates([acc EXCEPT !.a.dataset = Head(datasets)[1]], band,
                                 Head(datasets)[2]),
             band, Tail(datasets))

RECURSIVE prepare_merge_bands(_, _)
\* prepare_merge, lines 297-308: for band in scenes
prepare_merge_bands(acc, scenes) ==
    IF scenes = <<>> THEN acc
    ELSE prepare_merge_bands(
             prepare_merge_datasets([acc EXCEPT !.a.band = Head(scenes)[1]],
                                    Head(scenes)[1], Head(scenes)[2]),
             Tail(scenes))

\* a prepare_merge that never skips a published period; C6_PublishedPeriodUntouched
\* tells it from already_published
already_published_never(st, activity, force) == FALSE

\* prepare_merge, lines 248-252: the (tile, period) was published and is not rebuilt
already_published(st, activity, force) ==
    LET publish_control_key == <<"publish", activity.datacube>>
                                  \o encode_key(activity, <<"tileid", "start", "end">>)
    IN /\ ~force
       /\ HasItem(st, publish_control_key, <<"ALLBANDS">>)
       /\ Item(st, publish_control_key, <<"ALLBANDS">>).mystatus = "DONE"

\* prepare_merge, lines 253-260: the counter rows of the four stages go
remove_stage_keys(st, activity) ==
    LET rest == encode_key(activity, <<"tileid", "start", "end">>)
        merge_control_key == encode_key(activity,
                                 <<"action", "irregular_datacube", "tileid", "start", "end">>)
    IN remove_control_by_key(
         remove_control_by_key(
           remove_control_by_key(
             remove_control_by_key(st, merge_control_key),
             <<"blend", activity.datacube>> \o rest),
           <<"posblend", activity.datacube>> \o rest),
         <<"publish", activity.datacube>> \o rest)

\* a prepare_merge that also enqueues the NOSCENES activity; C8_NoScenes tells it
\* from prepare_merge_noscenes
prepare_merge_noscenes_enqueued(st, activity) ==
    LET a2 == [activity EXCEPT !.dynamoKey = encode_key(activity,
                                   <<"action", "irregular_datacube", "tileid", "start", "end">>),
                               !.sk = <<"NOSCENES">>, !.mystatus = "ERROR"]
    IN [st |-> send_to_sqs(put_item_kinesis(st, a2), a2), a |-> a2, skipped |-> FALSE]

\* prepare_merge, lines 283-295: no scene for the (tile, period)
prepare_merge_noscenes(st, activity) ==
    LET dynamo_key == encode_key(activity,
                          <<"action", "irregular_datacube", "tileid", "start", "end">>)
        a2 == [activity EXCEPT !.dynamoKey = dynamo_key, !.sk = <<"NOSCENES">>,
                               !.mystatus = "ERROR"]
    IN [st |-> put_item_kinesis(st, a2), a |-> a2, skipped |-> FALSE]

\* prepare_merge, lines 236-345: the body of the loop for one (tile, period);
\* scenes is the catalog of scenes search_STAC returned
\* returns [st, a, skipped]
prepare_merge_scenes(st, activity, p, force, scenes) ==
    LET a0 == [activity EXCEPT !.tileid = TILE, !.period = p,
                               !.start = PStart(p), !.end = PEnd(p)]
    IN IF already_published(st, a0, force)
       THEN [st |-> st, a |-> a0, skipped |-> TRUE]
       ELSE
       LET st0 == IF force THEN remove_stage_keys(st, a0) ELSE st
           dates == IF scenes = <<>> THEN <<>> ELSE dataset_dates(Head(scenes)[2])
           number_of_datasets_dates == Len(dates)
           a1 == [a0 EXCEPT !.list_dates = IF scenes # <<>> THEN dates ELSE @,
                            !.instancesToBeDone = number_of_datasets_dates,
                            !.totalInstancesToBeDone = number_of_datasets_dates * Len(BANDS)]
           activities_control_table_key ==
               encode_key(a1, <<"action", "irregular_datacube", "tileid", "start", "end">>)
           st1 == put_control_table(st0, activities_control_table_key, 0,
                                    a1.totalInstancesToBeDone)
       IN IF number_of_datasets_dates = 0
          THEN prepare_merge_noscenes(st1, a1)
          ELSE LET r == prepare_merge_bands([st |-> st1, a |-> a1], scenes)
               IN [st |-> r.st, a |-> r.a, skipped |-> FALSE]

\* the catalog of a search that finds every band of the cube in the scenes of one
\* dataset on the given dates
UniformScenes(dates) ==
    IF dates = {} THEN <<>>
    ELSE [i \in 1..Len(BANDS) |-> <<BANDS[i], << <<"ds1", SeqOfSet(dates)>> >> >>]

\* prepare_merge for one (tile, period) whose search returns the given dates for
\* every band
prepare_merge_period(st, activity, p, force, dates) ==
    prepare_merge_scenes(st, activity, p, force, UniformScenes(dates))

\* prepare_merge, lines 189-220: the activity before the loops
prepare_merge_activity(force, bands_expressions, indexes_only_regular_cube, shape) ==
    [NewActivity EXCEPT !.action = "merge", !.force = force,
                        !.bands_expressions = bands_expressions,
                        !.indexes_only_regular_cube = indexes_only_regular_cube,
                        !.shape = shape]

\* ---------------------------------------------------------------- workers
\* A stage function takes the activity of the message and what goes wrong in
\* this invocation (io): "none", "cache" (opening or reading the existing
\* target fails), "catalog" (publish: a band of the collection of the dates is
\* not in the catalog) or "source" (an input cannot be opened, the object store or
\* the catalog fails). It returns [record, s3, raised]: the record it puts on
\* the stream, the bucket, and whether the exception left the function.

IO == {"none", "cache", "source", "catalog"}

Failed(activity, step, message) ==
    [activity EXCEPT !.mystatus = "ERROR", !.errors = message]

\* merge_warped, lines 349-541; io = "both": the existing target cannot be read
\* (lines 370-384) and then a source cannot be opened either (line 440);
\* io = "record": the existing target is read, and putting the record on the
\* stream at line 380 fails. The result also tells the objects the invocation
\* deleted and wrote.
merge_warped(activity, bucket, io) ==
    LET key == activity.ARDfile
        a0 == [activity EXCEPT !.mystatus = "DONE"]
        cached == ~a0.force /\ key \in bucket
        \* lines 386-529
        rebuilt(b) ==
            IF io \in {"source", "both"}
            THEN [record |-> Failed(a0, "merge", "io"), s3 |-> b, raised |-> FALSE,
                  deleted |-> bucket \ b, written |-> {}]
            ELSE IF a0.shape
            THEN [record |-> Failed(a0, "merge", "NameError"), s3 |-> b \cup {key},
                  raised |-> FALSE, deleted |-> bucket \ b, written |-> {key}]
            ELSE [record |-> a0, s3 |-> b \cup {key}, raised |-> FALSE,
                  deleted |-> bucket \ b, written |-> {key}]
    IN IF cached /\ io \notin {"cache", "both", "record"}
       THEN [record |-> a0, s3 |-> bucket, raised |-> FALSE, deleted |-> {}, written |-> {}]
       ELSE IF cached
       THEN rebuilt(bucket \ {key})
       ELSE rebuilt(bucket)

RECURSIVE write_all(_, _)
\* the writes of a worker, in order; a key that is not in the activity raises KeyError
write_all(b, keys) ==
    IF keys = <<>> THEN [s3 |-> b, keyerror |-> FALSE]
    ELSE IF Head(keys) = <<>> THEN [s3 |-> b, keyerror |-> TRUE]
    ELSE write_all(b \cup {Head(keys)}, Tail(keys))

\* blend, lines 931-977: the objects the activity writes, in order
blend_outputs(activity) ==
    LET not_idt(f) == f # "IDT"
        is_stk(f) == f = "STK"
        is_med(f) == f = "MED"
        per_function(name) ==
            LET fs == SelectSeq(FUNCTIONS, not_idt)
            IN [i \in 1..Len(fs) |-> WithBand(FileField(activity, fs[i]), name)]
        internal == activity.internal_band
    IN (IF internal = "CLEAROB" THEN per_function("CLEAROB") ELSE <<>>)
       \o (IF internal = "PROVENANCE" /\ SelectSeq(FUNCTIONS, is_stk) # <<>>
           THEN <<WithBand(activity.STKfile, "PROVENANCE")>> ELSE <<>>)
       \o (IF internal = "TOTALOB" THEN per_function("TOTALOB") ELSE <<>>)
       \o (IF SelectSeq(FUNCTIONS, is_stk) # <<>> /\ internal = Missing
           THEN <<activity.STKfile>> ELSE <<>>)
       \o (IF SelectSeq(FUNCTIONS, is_med) # <<>> /\ internal = Missing
           THEN <<activity.MEDfile>> ELSE <<>>)

\* blend, lines 693-994
blend(activity, bucket, io) ==
    LET band == activity.band
        a0 == [activity EXCEPT !.sk = IF activity.internal_band = Missing
                                      THEN <<activity.band>>
                                      ELSE <<activity.internal_band>>]
        w == write_all(bucket, blend_outputs(a0))
    IN IF a0.scenes # {} /\ band \notin a0.ARDfiles
       THEN [record |-> Failed(a0, "blend", "band"), s3 |-> bucket, raised |-> FALSE]
       ELSE IF a0.scenes = {}
       THEN [record |-> Failed(a0, "blend", "IndexError"), s3 |-> bucket, raised |-> FALSE]
       ELSE IF io = "source" \/ QUALITY \notin a0.ARDfiles
       THEN [record |-> Failed(a0, "blend", IF io = "source" THEN "io" ELSE "KeyError"),
             s3 |-> bucket, raised |-> FALSE]
       ELSE IF w.keyerror
       THEN [record |-> Failed(a0, "blend", "KeyError"), s3 |-> w.s3, raised |-> FALSE]
       ELSE [record |-> [a0 EXCEPT !.mystatus = "DONE"], s3 |-> w.s3, raised |-> FALSE]

\* posblend, lines 1105-1142: the index objects of the activity
posblend_outputs(activity) ==
    IF "IDT" \in Range(activity.sk) /\ ~activity.indexes_only_regular_cube
    THEN IF Len(activity.sk) = 3
         THEN {<<"ARD", activity.tileid, activity.sk[3], activity.sk[1]>>}
         ELSE {}
    ELSE {<<f, activity.tileid, activity.start, activity.end, activity.sk[1]>> :
             f \in Range(FUNCTIONS) \ {"IDT"}}

\* posblend, lines 1093-1161
\* a posblend that leaves a target alone only when force is set and its file
\* exists; C33_EvaluatedUnlessPresent tells it from posblend_todo
posblend_todo_forced(activity, bucket) ==
    {k \in posblend_outputs(activity) : ~(activity.force /\ k \in bucket)}

\* posblend, lines 1125 and 1141: the targets whose index is evaluated and written
posblend_todo(activity, bucket) ==
    {k \in posblend_outputs(activity) : activity.force \/ k \notin bucket}

posblend(activity, bucket, io) ==
    LET todo == posblend_todo(activity, bucket)
    IN IF activity.indexesToBe = Missing
       THEN [record |-> Failed(activity, "posblend", "KeyError"), s3 |-> bucket,
             raised |-> FALSE]
       ELSE IF io = "source" /\ todo # {}
       THEN [record |-> Failed(activity, "posblend", "io"), s3 |-> bucket, raised |-> FALSE]
       ELSE [record |-> [activity EXCEPT !.mystatus = "DONE"], s3 |-> bucket \cup todo,
             raised |-> FALSE]

\* a publish that lists the indexes for the items of the dates in any case;
\* C20_RegularCubeOnly tells it from publish_indexes_list
publish_indexes_list_all(activity) ==
    activity.indexes

\* publish, line 1437: the indexes of the item of a date
publish_indexes_list(activity) ==
    IF activity.indexes_only_regular_cube THEN {} ELSE activity.indexes

\* publish, lines 1438-1440: a band of the item of a date has no file in the scene
publish_missing(activity) ==
    /\ activity.scenes # {}
    /\ ~((Range(BANDS) \cup publish_indexes_list(activity)) \subseteq activity.ARDfiles)

\* publish, lines 1351-1366: the assets of the item of a composite function;
\* next_publish (lines 1213-1244) gave 'blended' a file of that function for them
composite_assets(activity, function) ==
    {b \in Range(BANDS) : ~(function = "MED" /\ b = QUALITY)}
    \cup {b \in Range(INTERNAL_BANDS) : ~(function = "MED" /\ b = "PROVENANCE")}
    \cup activity.indexes

RECURSIVE publish_composites(_, _, _)
\* publish, lines 1288-1371: the item of the cube is committed for each
\* composite function in turn (db is the catalog)
publish_composites(activity, db, functions) ==
    IF functions = <<>> THEN db
    ELSE publish_composites(activity,
             IF Head(functions) = "IDT" THEN db
             ELSE Set(db, <<DATACUBE, activity.tileid, activity.start, activity.end>>,
                      composite_assets(activity, Head(functions))),
             Tail(functions))

\* publish, lines 1283-1457: the catalog after the commits of the invocation
publish_items(activity, db, io) ==
    IF io = "source" THEN db
    ELSE LET db1 == publish_composites(activity, db, FUNCTIONS)
             ards == IF publish_missing(activity) \/ io = "catalog" THEN {}
                     ELSE {<<IRREGULAR, activity.tileid, d>> : d \in activity.scenes}
         IN [n \in DOMAIN db1 \cup ards |->
                IF n \in ards THEN Range(BANDS) \cup publish_indexes_list(activity)
                ELSE db1[n]]

\* a publish without its except clause: the failure leaves the function;
\* C10_FailureRecorded tells it from publish
publish_uncaught(activity, bucket, io) ==
    IF io = "source"
    THEN [record |-> activity, s3 |-> bucket, raised |-> TRUE]
    ELSE [record |-> [activity EXCEPT !.mystatus = "DONE"], s3 |-> bucket, raised |-> FALSE]

\* publish, lines 1273-1473
publish(activity, bucket, io) ==
    IF io = "source"
    THEN [record |-> Failed(activity, "publish", "io"), s3 |-> bucket, raised |-> FALSE]
    ELSE IF publish_missing(activity)
    THEN [record |-> Failed(activity, "publish", "band"), s3 |-> bucket, raised |-> FALSE]
    ELSE IF io = "catalog"
    THEN [record |-> Failed(activity, "publish", "band not found"), s3 |-> bucket,
          raised |-> FALSE]
    ELSE [record |-> [activity EXCEPT !.mystatus = "DONE"], s3 |-> bucket, raised |-> FALSE]

\* the entry point of the message: the stage function of activity['action']
stage_function(activity, bucket, io) ==
    CASE activity.action = "merge" -> merge_warped(activity, bucket, io)
      [] activity.action = "blend" -> blend(activity, bucket, io)
      [] activity.action = "posblend" -> posblend(activity, bucket, io)
      [] OTHER -> publish(activity, bucket, io)

\* ---------------------------------------------------------------- actions

RECURSIVE StreamSize(_)
StreamSize(s) ==
    IF DOMAIN s = {} THEN 0
    ELSE LET id == CHOOSE i \in DOMAIN s : TRUE
         IN Len(s[id]) + StreamSize([j \in DOMAIN s \ {id} |-> s[j]])

RECURSIVE Refires(_)
Refires(f) ==
    IF DOMAIN f = {} THEN 0
    ELSE LET key == CHOOSE k \in DOMAIN f : TRUE
         IN (f[key] - 1) + Refires([k \in DOMAIN f \ {key} |-> f[k]])

Stores == [control |-> control, acts |-> acts, sqs |-> sqs, stream |-> stream,
           s3 |-> s3, rewritten |-> rewritten, calls |-> calls, fired |-> fired]

Become(st) ==
    /\ control' = st.control
    /\ acts' = st.acts
    /\ sqs' = st.sqs
    /\ stream' = st.stream
    /\ rewritten' = st.rewritten
    /\ calls' = st.calls
    /\ fired' = st.fired

Idle == [n |-> 0, pc |-> 0, force |-> FALSE, activity |-> NewActivity, not_started |-> {}]

InitPipeline ==
    /\ catalog \in Catalogs
    /\ exprs \in {{}, {INDEX}}
    /\ regular \in (IF exprs = {} THEN {FALSE} ELSE BOOLEAN)
    /\ control = <<>>
    /\ acts = <<>>
    /\ sqs = EmptyBag
    /\ stream = <<>>
    /\ s3 = {}
    /\ pending = EmptyBag
    /\ run = Idle
    /\ dups = 0
    /\ fails = 0
    /\ redelivery = {}
    /\ fanouts = <<>>
    /\ rewritten = {}
    /\ calls = <<>>
    /\ fired = <<>>
    /\ crashed = {}
    /\ assets = <<>>

\* no raster is open
NoPixel == [pc |-> "idle"]

Init ==
    /\ InitPipeline
    /\ blend_in = NoPixel /\ blend_px = NoPixel
    /\ merge_in = NoPixel /\ merge_px = NoPixel
    /\ call_in = NoPixel /\ call_st = NoPixel

\* prepare_merge is called (lines 184-220); the runs of a behaviour do not overlap:
\* a run starts when no message, record or transition of an earlier one is in flight
StartRun(force) ==
    /\ run.pc = 0
    /\ run.n < MaxRuns
    /\ run' = [n |-> run.n + 1, pc |-> 1, force |-> force,
               activity |-> prepare_merge_activity(force, exprs, regular, FALSE),
               not_started |-> {}]
    /\ sqs = EmptyBag /\ stream = <<>> /\ pending = EmptyBag
    /\ fanouts' = <<>>
    /\ UNCHANGED <<catalog, exprs, regular, control, acts, sqs, stream, s3, pending, dups,
                   fails, redelivery, rewritten, calls, fired, crashed>>
    /\ UNCHANGED <<assets, pixels>>

\* prepare_merge: one (tile, period) of the loops of lines 223-345; after the last
\* one the function returns scenes_not_started
PreparePeriod ==
    /\ run.pc \in 1..Len(PERIODS)
    /\ LET p == PERIODS[run.pc]
           r == prepare_merge_period(Stores, run.activity, p, run.force, catalog[p])
       IN /\ Become(r.st)
          /\ run' = [run EXCEPT !.pc = IF run.pc = Len(PERIODS) THEN 0 ELSE @ + 1,
                                !.activity = r.a,
                                !.not_started = IF r.skipped THEN @ \cup {p} ELSE @]
    /\ UNCHANGED <<catalog, exprs, regular, s3, pending, dups, fails, fanouts, redelivery, crashed>>
    /\ UNCHANGED <<assets, pixels>>

\* a worker receives a message and runs its stage function; the queue may deliver
\* the message again (redeliver), and then that delivery comes before any other.
\* An exception that leaves the stage function ends the invocation with nothing
\* recorded, and the message stays in the queue.
Work(m, io, redeliver) ==
    /\ BagIn(m, sqs)
    /\ dups + fails + (IF redeliver THEN 1 ELSE 0) + (IF io # "none" THEN 1 ELSE 0) <= MaxFaults
    /\ io = "cache" => m.action = "merge" /\ ~m.force /\ m.ARDfile \in s3
    /\ io = "catalog" => m.action = "publish" /\ m.scenes # {}
    /\ redelivery # {} => m \in redelivery
    /\ StreamSize(stream) < MaxStream
    /\ LET r == stage_function(m, s3, io)
       IN /\ stream' = IF r.raised THEN stream ELSE put_item_kinesis(Stores, r.record).stream
          /\ s3' = r.s3
          /\ crashed' = IF r.raised THEN crashed \cup {m.action} ELSE crashed
          /\ sqs' = IF redeliver \/ r.raised THEN sqs ELSE sqs (-) SetToBag({m})
    /\ dups' = IF redeliver THEN dups + 1 ELSE dups
    /\ redelivery' = IF redeliver THEN {m} ELSE {}
    /\ fails' = IF io # "none" THEN fails + 1 ELSE fails
    /\ UNCHANGED <<catalog, exprs, regular, control, acts, pending, run, fanouts, rewritten,
                   calls, fired>>
    /\ assets' = IF m.action = "publish" THEN publish_items(m, assets, io) ELSE assets
    /\ UNCHANGED pixels

\* solo, lines 136-151, and the increment of next_step (lines 155-165), for the
\* oldest record of one activity; a record whose next_step observes the stage
\* complete waits in pending for the transition
Solo(id) ==
    /\ Has(stream, id)
    /\ LET activity == Head(stream[id])
           st1 == put_activity(Stores, activity)
           key == get_key_to_controltable(activity)
           st2 == CASE key = KeyError -> st1
                    [] activity.mystatus = "DONE" ->
                         update_control_table(st1, key, ActId(activity))
                    [] activity.mystatus = "ERROR" -> increment_errors(st1, key)
                    [] OTHER -> st1
           fires == /\ key # KeyError
                    /\ activity.mystatus = "DONE"
                    /\ Has(st2.control, key)
                    /\ Fires(st2.control[key].mycount, activity)
       IN /\ fires => BagCardinality(pending) < MaxPending
          /\ Become([st2 EXCEPT !.stream = IF Len(@[id]) = 1 THEN Drop(@, id)
                                           ELSE Set(@, id, Tail(@[id]))])
          /\ pending' = IF fires THEN pending (+) SetToBag({activity}) ELSE pending
          /\ crashed' = IF key = KeyError THEN crashed \cup {"solo"} ELSE crashed
    /\ UNCHANGED <<catalog, exprs, regular, s3, run, dups, fails, fanouts, redelivery>>
    /\ UNCHANGED <<assets, pixels>>

\* next_step, lines 167-178, of a record that observed the stage complete
Transition(activity) ==
    /\ BagIn(activity, pending)
    /\ LET key == get_key_to_controltable(activity)
       IN /\ Has(fanouts, key) => Refires(fanouts) < MaxRefires
          /\ fanouts' = Set(fanouts, key, Get(fanouts, key, 0) + 1)
    /\ Become(stage_transition(Stores, activity))
    /\ pending' = pending (-) SetToBag({activity})
    /\ crashed' = IF /\ activity.action \in {"blend", "posblend"}
                     /\ ~(activity.action = "blend" /\ activity.bands_expressions # {})
                     /\ PublishInputsRaise(Stores, activity)
                  THEN crashed \cup {"next_publish"}
                  ELSE crashed
    /\ UNCHANGED <<catalog, exprs, regular, s3, run, dups, fails, redelivery>>
    /\ UNCHANGED <<assets, pixels>>

Next ==
    \/ \E force \in BOOLEAN : StartRun(force)
    \/ PreparePeriod
    \/ \E m \in BagToSet(sqs), io \in IO, redeliver \in BOOLEAN : Work(m, io, redeliver)
    \/ \E id \in DOMAIN stream : Solo(id)
    \/ \E activity \in BagToSet(pending) : Transition(activity)

Spec == Init /\ [][Next]_vars

\* ------------------------------------------------- the pipeline at its best
\* One call of prepare_merge where nothing goes wrong: every message is
\* delivered once, every worker invocation reads and writes what it needs, and
\* the queue, the stream and the handlers keep running while there is work.

StartOnce ==
    /\ run.n = 0
    /\ \E force \in BOOLEAN : StartRun(force)

NextLive ==
    \/ StartOnce
    \/ PreparePeriod
    \/ \E m \in BagToSet(sqs) : Work(m, "none", FALSE)
    \/ \E id \in DOMAIN stream : Solo(id)
    \/ \E activity \in BagToSet(pending) : Transition(activity)

\* the queue, the stream and the handlers do not stop while there is something
\* to do
SpecLive == Init /\ [][NextLive]_vars /\ WF_vars(NextLive)

\* ------------------------------------------- MERGE under repeated faults
\* The same pipeline with the workers of the MERGE stage only, where a message
\* may be delivered twice and an invocation may fail as well.

\* what may go wrong in one invocation of merge_warped
MergeIO == {"none", "cache", "source", "both", "record"}

WorkMerge(m, io, redeliver) ==
    /\ BagIn(m, sqs)
    /\ m.action = "merge"
    /\ dups + fails + (IF redeliver THEN 1 ELSE 0) + (IF io # "none" THEN 1 ELSE 0)
           <= MaxMergeFaults
    /\ io \in {"cache", "both", "record"} => ~m.force /\ m.ARDfile \in s3
    /\ redelivery # {} => m \in redelivery
    /\ StreamSize(stream) < MaxStream
    /\ LET r == merge_warped(m, s3, io)
       IN /\ stream' = put_item_kinesis(Stores, r.record).stream
          /\ s3' = r.s3
          /\ sqs' = IF redeliver THEN sqs ELSE sqs (-) SetToBag({m})
    /\ dups' = IF redeliver THEN dups + 1 ELSE dups
    /\ redelivery' = IF redeliver THEN {m} ELSE {}
    /\ fails' = IF io # "none" THEN fails + 1 ELSE fails
    /\ UNCHANGED <<catalog, exprs, regular, control, acts, pending, run, fanouts, rewritten,
                   calls, fired, crashed>>
    /\ UNCHANGED <<assets, pixels>>

NextRedelivery ==
    \/ \E force \in BOOLEAN : StartRun(force)
    \/ PreparePeriod
    \/ \E m \in BagToSet(sqs), io \in MergeIO, redeliver \in BOOLEAN : WorkMerge(m, io, redeliver)
    \/ \E id \in DOMAIN stream : Solo(id)
    \/ \E activity \in BagToSet(pending) : Transition(activity)

SpecRedelivery == Init /\ [][NextRedelivery]_vars

\* ------------------------------------------- MERGE over catalogs of scenes
\* The MERGE stage for the catalogs of scenes[band][dataset][date] a search may
\* return: bands with different dates, a band without scenes, datasets that
\* share a date, date keys that share a day.

OneDataset(dates) == << <<"ds1", dates>> >>
SceneCatalogs ==
    { \* every band on one date, on two dates
      << <<"B1", OneDataset(<<"d1">>)>>, <<QUALITY, OneDataset(<<"d1">>)>> >>,
      << <<"B1", OneDataset(<<"d1", "d3">>)>>, <<QUALITY, OneDataset(<<"d1", "d3">>)>> >>,
      \* a scene without the asset of one band
      << <<"B1", OneDataset(<<"d1", "d3">>)>>, <<QUALITY, OneDataset(<<"d1">>)>> >>,
      << <<"B1", OneDataset(<<"d1">>)>>, <<QUALITY, OneDataset(<<"d1", "d3">>)>> >>,
      \* no scene with the asset of one band
      << <<"B1", OneDataset(<<"d1">>)>> >>,
      \* two datasets with a scene on the same date
      << <<"B1", << <<"ds1", <<"d1">>>>, <<"ds2", <<"d1">>>> >>>>,
         <<QUALITY, << <<"ds1", <<"d1">>>>, <<"ds2", <<"d1">>>> >>>> >>,
      \* two date keys of the same day
      << <<"B1", OneDataset(<<"d1", "d1T">>)>>, <<QUALITY, OneDataset(<<"d1", "d1T">>)>> >> }

\* here catalog is the score of the tile: for each period the scenes of the
\* search and whether the period gives the shape of the grid
InitScenes ==
    /\ catalog \in {[p \in Range(PERIODS) |->
                        [scenes |-> IF p = PERIODS[1] THEN c ELSE <<>>, shape |-> shape]] :
                       c \in SceneCatalogs, shape \in BOOLEAN}
    /\ exprs = {}
    /\ regular = FALSE
    /\ control = <<>> /\ acts = <<>> /\ sqs = EmptyBag /\ stream = <<>> /\ s3 = {}
    /\ pending = EmptyBag /\ run = Idle /\ dups = 0 /\ fails = 0 /\ redelivery = {}
    /\ fanouts = <<>> /\ rewritten = {} /\ calls = <<>> /\ fired = <<>> /\ crashed = {}
    /\ assets = <<>>
    /\ blend_in = NoPixel /\ blend_px = NoPixel
    /\ merge_in = NoPixel /\ merge_px = NoPixel
    /\ call_in = NoPixel /\ call_st = NoPixel

\* prepare_merge: one (tile, period) of the loops of lines 223-345, on the catalog
\* of scenes of the period
PrepareScenes ==
    /\ run.pc \in 1..Len(PERIODS)
    /\ LET p == PERIODS[run.pc]
           r == prepare_merge_scenes(Stores, [run.activity EXCEPT !.shape = catalog[p].shape],
                                     p, run.force, catalog[p].scenes)
       IN /\ Become(r.st)
          /\ run' = [run EXCEPT !.pc = IF run.pc = Len(PERIODS) THEN 0 ELSE @ + 1,
                                !.activity = r.a,
                                !.not_started = IF r.skipped THEN @ \cup {p} ELSE @]
    /\ UNCHANGED <<catalog, exprs, regular, s3, pending, dups, fails, fanouts, redelivery, crashed>>
    /\ UNCHANGED <<assets, pixels>>

NextScenes ==
    \/ \E force \in BOOLEAN : StartRun(force)
    \/ PrepareScenes
    \/ \E m \in BagToSet(sqs), io \in MergeIO, redeliver \in BOOLEAN : WorkMerge(m, io, redeliver)
    \/ \E id \in DOMAIN stream : Solo(id)
    \/ \E activity \in BagToSet(pending) : Transition(activity)

SpecScenes == InitScenes /\ [][NextScenes]_vars

\* ------------------------------------------------------- BLEND, one pixel
\* Every array operation of blend (lines 818-917) acts on each pixel by
\* itself, so one pixel of the rasters is followed through the function:
\* blend_in holds what the input files hold at that pixel for each scene,
\* blend_px what the arrays of blend hold there.

\* int(activity.get('nodata', -9999)), the cube nodata
NODATA == -9999
\* numpy.uint8 arithmetic is modulo 2^8
Uint8 == 256
\* the year of the dates of the period
Year == 2020
\* dates of a period in which every combination of scene values is considered
MaxScenes == 3
\* dates of a long period of uniform scenes
LongScenes == 256

\* mask descriptors: the classes of the quality band
FMASK == [nodata |-> 255, clear_data |-> {0, 1}, not_clear_data |-> {2},
          saturated_data |-> {3}]
CMASK == [nodata |-> 0, clear_data |-> {1}, not_clear_data |-> {2},
          saturated_data |-> {3}]
Masks == {FMASK, CMASK}
\* the values a quality raster may hold at the pixel
QualityValues == {0, 1, 2, 3, 255}
\* scene['efficacy'], in percent
Efficacies == {0, 100}

\* a date 'YYYY-MM-DD' is <<year, month, day>>
IsLeap(y) == (y % 4 = 0 /\ y % 100 # 0) \/ y % 400 = 0
DaysIn(y, m) ==
    CASE m = 2 -> IF IsLeap(y) THEN 29 ELSE 28
      [] m \in {4, 6, 9, 11} -> 30
      [] OTHER -> 31
RECURSIVE DaysBefore(_, _)
DaysBefore(y, m) == IF m = 1 THEN 0 ELSE DaysBefore(y, m - 1) + DaysIn(y, m - 1)
\* datetime.strptime(date, '%Y-%m-%d').timetuple().tm_yday (line 863)
tm_yday(date) == DaysBefore(date[1], date[2]) + date[3]
\* the date of the n-th day of year y
DateOfDay(y, n) ==
    CHOOSE date \in {<<y, m, d>> : m \in 1..12, d \in 1..31} :
        date[3] <= DaysIn(y, date[2]) /\ tm_yday(date) = n
\* str < str on two dates of the form 'YYYY-MM-DD'
KeyLess(a, b) ==
    \/ a[1] < b[1]
    \/ a[1] = b[1] /\ a[2] < b[2]
    \/ a[1] = b[1] /\ a[2] = b[2] /\ a[3] < b[3]

\* the value the band file of a date holds at the pixel, when it holds data
ValueOf(date) == 100 + tm_yday(date)

ShortDates == {DateOfDay(Year, 1 + 16 * (i - 1)) : i \in 1..MaxScenes}
LongDates == {DateOfDay(Year, n) : n \in 1..LongScenes}

\* what the files of a date may hold at the pixel; in the pass of the quality
\* band the band file is the quality file
ScenesAt(band, date) ==
    UNION {{[efficacy |-> e, quality |-> q, raster |-> r] :
               r \in (IF band = QUALITY THEN {q} ELSE {NODATA, ValueOf(date)})} :
           e \in Efficacies, q \in QualityValues}

ShortPeriods(band) ==
    UNION {{sc \in [D -> UNION {ScenesAt(band, d) : d \in D}] :
               \A d \in D : sc[d] \in ScenesAt(band, d)} :
           D \in SUBSET ShortDates \ {{}}}

\* every date has data that its quality raster classifies as 1
LongPeriod == [d \in LongDates |-> [efficacy |-> 100, quality |-> 1, raster |-> ValueOf(d)]]

BlendInputs ==
    {[band |-> b, mask |-> mk, scenes |-> sc] :
        b \in {BANDS[1]}, mk \in Masks, sc \in ShortPeriods(BANDS[1]) \cup {LongPeriod}}
    \cup {[band |-> b, mask |-> mk, scenes |-> sc] :
             b \in {QUALITY}, mk \in Masks, sc \in ShortPeriods(QUALITY)}

RECURSIVE KeysInOrder(_)
\* the keys of activity['scenes'] in the order fill_blend inserted them
\* (lines 662-677, by date)
KeysInOrder(S) ==
    IF S = {} THEN <<>>
    ELSE LET k == CHOOSE x \in S : \A y \in S : ~KeyLess(y, x)
         IN <<k>> \o KeysInOrder(S \ {k})

\* lines 734-739
mask_tuples(scenes) ==
    LET keys == KeysInOrder(DOMAIN scenes)
        resolution == 10
    IN [i \in 1..Len(keys) |-> <<(100 * scenes[keys[i]].efficacy) \div resolution, keys[i]>>]

\* tuple < tuple on (float, str)
TupleLess(a, b) == a[1] < b[1] \/ (a[1] = b[1] /\ KeyLess(a[2], b[2]))

RECURSIVE InsertDescending(_, _)
InsertDescending(t, s) ==
    IF s = <<>> THEN <<t>>
    ELSE IF TupleLess(Head(s), t) THEN <<t>> \o s
    ELSE <<Head(s)>> \o InsertDescending(t, Tail(s))

RECURSIVE sorted_reverse(_)
\* sorted(tuples, reverse=True), line 746
sorted_reverse(tuples) ==
    IF tuples = <<>> THEN <<>>
    ELSE InsertDescending(Head(tuples), sorted_reverse(Tail(tuples)))

\* lines 746-750: the keys of the scenes in the order blend reads them
blend_order(scenes) ==
    LET sorted == sorted_reverse(mask_tuples(scenes))
    IN [i \in 1..Len(sorted) |-> sorted[i][2]]

\* lines 706-708
blend_nodata(in) == IF in.band = QUALITY THEN in.mask.nodata ELSE NODATA

\* lines 839-845: the quality value after the four masked assignments
masked_quality(q, raster, nodata, mask) ==
    LET m1 == IF q \in mask.not_clear_data THEN 0 ELSE q
        m2 == IF m1 \in mask.saturated_data THEN 0 ELSE m1
        m3 == IF raster = nodata THEN 0 ELSE m2
    IN IF m3 \in mask.clear_data THEN 1 ELSE m3

\* lines 795-822: the arrays before the first scene
blend_arrays(in) ==
    [pc |-> "scenes", order |-> blend_order(in.scenes), i |-> 1,
     stack_raster |-> blend_nodata(in), median_raster |-> blend_nodata(in),
     stack_total_observation |-> 0, provenance_array |-> -1, count_raster |-> 0,
     stackMA |-> <<>>, notdonemask |-> TRUE]

\* lines 828-907: one pass of the loop over the scenes
blend_scene(px, in) ==
    LET nodata == blend_nodata(in)
        key == px.order[px.i]
        raster == in.scenes[key].raster
        mask == masked_quality(in.scenes[key].quality, raster, nodata, in.mask)
        bmask == mask = 0
        copy_mask == IF raster # nodata THEN 1 ELSE 0
        day_of_year == tm_yday(key)
        \* lines 866-889
        intersect == px.stack_raster = nodata /\ raster # nodata
        stack1 == IF intersect THEN raster ELSE px.stack_raster
        provenance1 == IF intersect THEN day_of_year ELSE px.provenance_array
        \* lines 892-904
        todomask == px.notdonemask /\ ~bmask
        clear_not_done == todomask /\ mask # 0
    IN [px EXCEPT
          !.i = @ + 1,
          !.stackMA = Append(@, [masked |-> bmask, data |-> raster]),
          !.stack_total_observation = (@ + copy_mask) % Uint8,
          !.stack_raster = IF clear_not_done THEN raster ELSE stack1,
          !.provenance_array = IF clear_not_done THEN day_of_year ELSE provenance1,
          !.notdonemask = @ /\ bmask]

RECURSIVE InsertAscending(_, _)
InsertAscending(v, s) ==
    IF s = <<>> THEN <<v>>
    ELSE IF v <= Head(s) THEN <<v>> \o s
    ELSE <<Head(s)>> \o InsertAscending(v, Tail(s))

RECURSIVE Unmasked(_)
\* the data of the entries of stackMA that are not masked, in ascending order
Unmasked(stack) ==
    IF stack = <<>> THEN <<>>
    ELSE IF Head(stack).masked THEN Unmasked(Tail(stack))
    ELSE InsertAscending(Head(stack).data, Unmasked(Tail(stack)))

\* float -> integer dtype: truncation toward zero
Truncated(num, den) == IF num >= 0 THEN num \div den ELSE -((-num) \div den)

\* numpy.ma.median(stackMA, axis=0).data.astype(dtype), line 910
ma_median(stack, fill) ==
    LET v == Unmasked(stack)
        n == Len(v)
    IN IF n = 0 THEN fill
       ELSE IF n % 2 = 1 THEN v[(n + 1) \div 2]
       ELSE Truncated(v[n \div 2] + v[n \div 2 + 1], 2)

\* lines 909-917: after the last scene
blend_finish(px, in) ==
    [px EXCEPT
       !.pc = "done",
       !.median_raster = IF px.notdonemask THEN blend_nodata(in)
                         ELSE ma_median(px.stackMA, blend_nodata(in)),
       !.count_raster = Len(Unmasked(px.stackMA))]

InitBlend ==
    /\ InitPipeline
    /\ exprs = {} /\ catalog[PERIODS[1]] # {}
    /\ blend_in \in BlendInputs
    /\ blend_px = [pc |-> "start"]
    /\ merge_in = NoPixel /\ merge_px = NoPixel
    /\ call_in = NoPixel /\ call_st = NoPixel

BlendOpen ==
    /\ blend_px.pc = "start"
    /\ blend_px' = blend_arrays(blend_in)
    /\ UNCHANGED <<pipeline, blend_in, merge_in, merge_px, call_in, call_st>>

BlendScene ==
    /\ blend_px.pc = "scenes"
    /\ blend_px.i <= Len(blend_px.order)
    /\ blend_px' = blend_scene(blend_px, blend_in)
    /\ UNCHANGED <<pipeline, blend_in, merge_in, merge_px, call_in, call_st>>

BlendWrite ==
    /\ blend_px.pc = "scenes"
    /\ blend_px.i > Len(blend_px.order)
    /\ blend_px' = blend_finish(blend_px, blend_in)
    /\ UNCHANGED <<pipeline, blend_in, merge_in, merge_px, call_in, call_st>>

NextBlend == BlendOpen \/ BlendScene \/ BlendWrite

SpecBlend == InitBlend /\ [][NextBlend]_vars

\* ------------------------------------------------------- MERGE, one pixel
\* The composition of the scenes of one date in merge_warped (lines 413-494)
\* at one pixel: merge_in.links holds, for each link in order, the value of
\* `raster` at the pixel after the scene was read or reprojected.

\* numpy.uint16 arithmetic is modulo 2^16
Uint16 == 65536
\* links of one merge activity
MaxLinks == 3

Satellites == {"LANDSAT-8", "SENTINEL-2", "CBERS-4"}
\* 'LANDSAT' in satellite
IsLandsat(satellite) == satellite \in {"LANDSAT-8"}
\* activity['mask']['nodata']
MaskNodata == {0, 255}
\* values of a band at the pixel
BandValues == {NODATA, 7, 9}

MergeInputs ==
    {[band |-> b, satellite |-> sat, mask_nodata |-> mn, links |-> l] :
        b \in {BANDS[1]}, sat \in Satellites, mn \in MaskNodata,
        l \in UNION {[1..n -> BandValues] : n \in 1..MaxLinks}}
    \cup {[band |-> b, satellite |-> sat, mask_nodata |-> mn, links |-> l] :
             b \in {QUALITY}, sat \in Satellites, mn \in MaskNodata,
             l \in UNION {[1..n -> QualityValues] : n \in 1..MaxLinks}}

\* lines 413-414
is_sentinel_landsat_quality_fmask(in) ==
    /\ IsLandsat(in.satellite) \/ in.satellite = "SENTINEL-2"
    /\ in.band = QUALITY /\ in.mask_nodata # 0

\* lines 393 and 421
merge_nodata(in) == IF in.band = QUALITY THEN in.mask_nodata ELSE NODATA

\* lines 418-431: the arrays before the first link
merge_arrays(in) ==
    [pc |-> "links", i |-> 1, raster_merge |-> merge_nodata(in), raster_mask |-> 1]

\* a composition in which every scene overwrites the pixel, valid or not;
\* C18_LastValidWins tells it from merge_link
merge_link_overwrite(px, in) ==
    [px EXCEPT !.i = @ + 1, !.raster_merge = in.links[px.i]]

\* lines 485-494: the composition of one link
merge_link(px, in) ==
    LET raster == in.links[px.i]
        nodata == merge_nodata(in)
    IN IF in.band # QUALITY \/ is_sentinel_landsat_quality_fmask(in)
       THEN [px EXCEPT !.i = @ + 1,
                       !.raster_merge = IF raster # nodata THEN raster ELSE @]
       ELSE LET factor == (raster * px.raster_mask) % Uint16
            IN [px EXCEPT !.i = @ + 1,
                          !.raster_merge = (@ + factor) % Uint16,
                          !.raster_mask = IF raster # nodata THEN 0 ELSE @]

InitMerge ==
    /\ InitPipeline
    /\ exprs = {} /\ catalog[PERIODS[1]] # {}
    /\ merge_in \in MergeInputs
    /\ merge_px = [pc |-> "start"]
    /\ blend_in = NoPixel /\ blend_px = NoPixel
    /\ call_in = NoPixel /\ call_st = NoPixel

MergeOpen ==
    /\ merge_px.pc = "start"
    /\ merge_px' = merge_arrays(merge_in)
    /\ UNCHANGED <<pipeline, blend_in, blend_px, merge_in, call_in, call_st>>

MergeLink ==
    /\ merge_px.pc = "links"
    /\ merge_px.i <= Len(merge_in.links)
    /\ merge_px' = merge_link(merge_px, merge_in)
    /\ UNCHANGED <<pipeline, blend_in, blend_px, merge_in, call_in, call_st>>

NextMerge == MergeOpen \/ MergeLink

SpecMerge == InitMerge /\ [][NextMerge]_vars

\* ------------------------------------------------ MERGE, the source nodata
\* The nodata merge_warped gives each source it opens (lines 413-467): merge_in
\* holds the activity and, for each link in order, the profile of the source;
\* merge_px holds source_nodata and the nodata of the kwargs of each source read.
\* An optional value is <<>> (None, or a key that is not set) or <<v>>.

\* links of one merge activity whose profiles are considered
MaxSources == 2

\* 'CBERS' in satellite
IsCbers(satellite) == satellite \in {"CBERS-4"}

\* src.profile of a source: its nodata and dtype
Profiles == [nodata : {<<>>, <<0>>, <<NODATA>>}, dtype : {"int16", "uint8"}]

NodataInputs ==
    {[band |-> b, satellite |-> sat, mask_nodata |-> mn, source_nodata |-> sn, links |-> l] :
        b \in Range(BANDS), sat \in Satellites, mn \in MaskNodata,
        sn \in {<<>>, <<0>>, <<255>>},
        l \in UNION {[1..n -> Profiles] : n \in 1..MaxSources}}

\* merge_warped, lines 415-422: source_nodata before the loop over the links
source_nodata_start(in) ==
    IF in.band = QUALITY THEN in.mask_nodata ELSE 0

\* merge_warped, lines 450-460: source_nodata for a source, from its value so far
source_nodata_next(in, source_nodata, profile) ==
    IF profile.nodata # <<>> THEN profile.nodata[1]
    ELSE IF in.source_nodata # <<>> THEN in.source_nodata[1]
    ELSE IF IsLandsat(in.satellite) /\ in.band # QUALITY
    THEN (IF profile.dtype = "int16" THEN merge_nodata(in) ELSE 0)
    ELSE IF IsCbers(in.satellite) /\ in.band # QUALITY
    THEN merge_nodata(in)
    ELSE source_nodata

InitNodata ==
    /\ InitPipeline
    /\ exprs = {} /\ catalog[PERIODS[1]] # {}
    /\ blend_in = NoPixel /\ blend_px = NoPixel
    /\ call_in = NoPixel /\ call_st = NoPixel
    /\ merge_in \in NodataInputs
    /\ merge_px = [pc |-> "links", i |-> 1, source_nodata |-> source_nodata_start(merge_in),
                   kwargs |-> <<>>]

\* merge_warped, lines 437-467: one source is opened and its kwargs are made
OpenSource ==
    /\ merge_px.pc = "links"
    /\ merge_px.i <= Len(merge_in.links)
    /\ LET nd == source_nodata_next(merge_in, merge_px.source_nodata,
                                    merge_in.links[merge_px.i])
       IN merge_px' = [merge_px EXCEPT !.i = @ + 1, !.source_nodata = nd,
                                       !.kwargs = Append(@, nd)]
    /\ UNCHANGED <<pipeline, blend_in, blend_px, merge_in, call_in, call_st>>

NextNodata == OpenSource

SpecNodata == InitNodata /\ [][NextNodata]_vars

\* ------------------------------------------------------------ orchestrate
\* orchestrate (lines 35-117) on its own. A date is the number of its day; an
\* interval of the timeline is <<start, end>>, both days inclusive.

\* the last day of the cycle of the temporal schema
MaxDay == 6
\* temporal_schema['step'], in days
Steps == {2, 3}
\* the names of the rows of Tile for the grid of the cube, and their ids
GridTiles == {"t1", "t2"}
TileId(name) == IF name = "t1" THEN 1 ELSE 2
\* names a request may carry; "t9" is not a tile of the grid
TileNames == GridTiles \cup {"t9"}

OrchestrateInputs ==
    {[tiles |-> ts, start_date |-> sd, end_date |-> ed, step |-> st, clipped |-> c] :
        ts \in SUBSET TileNames \ {{}}, sd \in 1..MaxDay, ed \in 1..MaxDay,
        st \in Steps, c \in BOOLEAN}

\* Timeline(**temporal_schema, start_date, end_date).mount(): the windows of step
\* days of the cycle that meet [start_date, end_date], whole or clipped to it
timeline_mount(in) ==
    LET windows == {<<1 + k * in.step, IF (k + 1) * in.step > MaxDay THEN MaxDay
                                        ELSE (k + 1) * in.step>> : k \in 0..(MaxDay - 1)}
        meet == {w \in windows : w[1] <= MaxDay /\ w[1] <= in.end_date
                                               /\ w[2] >= in.start_date}
        clip(w) == <<IF w[1] < in.start_date THEN in.start_date ELSE w[1],
                     IF w[2] > in.end_date THEN in.end_date ELSE w[2]>>
    IN IF in.clipped THEN {clip(w) : w \in meet} ELSE meet

RECURSIVE sorted_intervals(_)
\* sorted(timeline), line 78
sorted_intervals(S) ==
    IF S = {} THEN <<>>
    ELSE LET w == CHOOSE x \in S : \A y \in S : x[1] < y[1] \/ (x[1] = y[1] /\ x[2] <= y[2])
         IN <<w>> \o sorted_intervals(S \ {w})

\* lines 37-43: the rows of Tile whose name is among the requested ones
tiles_by_grs(in) == SeqOfSet(in.tiles \cap GridTiles)

\* line 101: f'{name}_{version}_{tile_name}_{period}'
item_id(tile_name, period) == <<IRREGULAR, "v1", tile_name, period[1], period[2]>>

\* lines 87-115: one tile of one interval; acc is [items, items_id]
orchestrate_tile(acc, tile_name, interval) ==
    LET of == Get(acc.items, tile_name, <<>>)
        id == item_id(tile_name, interval)
    IN IF id \in acc.items_id THEN [acc EXCEPT !.items = Set(@, tile_name, of)]
       ELSE [items_id |-> acc.items_id \cup {id},
             items |-> Set(acc.items, tile_name,
                           Set(of, interval,
                               [tile_id |-> TileId(tile_name), tile_name |-> tile_name,
                                item_date |-> interval, id |-> id,
                                composite_start |-> interval[1],
                                composite_end |-> interval[2]]))]

RECURSIVE orchestrate_tiles(_, _, _)
orchestrate_tiles(acc, tiles, interval) ==
    IF tiles = <<>> THEN acc
    ELSE orchestrate_tiles(orchestrate_tile(acc, Head(tiles), interval), Tail(tiles), interval)

\* lines 78-115: one pass of the loop over the intervals
orchestrate_interval(st, in) ==
    LET interval == st.timeline[st.i]
    IN IF interval[1] < in.start_date \/ interval[2] > in.end_date
       THEN [st EXCEPT !.i = @ + 1]
       ELSE LET r == orchestrate_tiles([items |-> st.items, items_id |-> st.items_id],
                                       st.tiles_infos, interval)
            IN [st EXCEPT !.i = @ + 1, !.items = r.items, !.items_id = r.items_id]

InitOrchestrate ==
    /\ InitPipeline
    /\ exprs = {} /\ catalog[PERIODS[1]] # {}
    /\ blend_in = NoPixel /\ blend_px = NoPixel
    /\ merge_in = NoPixel /\ merge_px = NoPixel
    /\ call_in \in OrchestrateInputs
    /\ call_in.start_date <= call_in.end_date
    /\ call_st = [pc |-> "start"]

\* lines 36-76: the tiles of the grid and the timeline
OrchestrateOpen ==
    /\ call_st.pc = "start"
    /\ call_st' = [pc |-> "intervals", tiles_infos |-> tiles_by_grs(call_in),
                   timeline |-> sorted_intervals(timeline_mount(call_in)), i |-> 1,
                   items |-> <<>>, items_id |-> {}]
    /\ UNCHANGED <<pipeline, blend_in, blend_px, merge_in, merge_px, call_in>>

OrchestrateInterval ==
    /\ call_st.pc = "intervals"
    /\ call_st.i <= Len(call_st.timeline)
    /\ call_st' = orchestrate_interval(call_st, call_in)
    /\ UNCHANGED <<pipeline, blend_in, blend_px, merge_in, merge_px, call_in>>

\* line 117
OrchestrateReturn ==
    /\ call_st.pc = "intervals"
    /\ call_st.i > Len(call_st.timeline)
    /\ call_st' = [call_st EXCEPT !.pc = "done"]
    /\ UNCHANGED <<pipeline, blend_in, blend_px, merge_in, merge_px, call_in>>

NextOrchestrate == OrchestrateOpen \/ OrchestrateInterval \/ OrchestrateReturn

SpecOrchestrate == InitOrchestrate /\ [][NextOrchestrate]_vars

\* ------------------------------------------------------- the counter keys
\* get_key_to_controltable (lines 120-130) against the ids the producers put,
\* with names spelled out: the name of a cube and the id of a tile are strings of
\* several tokens, and a token of theirs may be the name of a band or a date.

\* the strings a name may be: "B1" is also a band, "d1" also a date
Spellings(name) == {<<name>>, <<name, "B1">>, <<name, "d1">>}
KeyTiles == {"t1", "t2"}

KeyInputs ==
    [datacube : Spellings(DATACUBE), irregular_datacube : Spellings(IRREGULAR),
     tileid : Spellings("t1")]

\* field value -> the string it stands for
KeyNames(in) ==
    (DATACUBE :> in.datacube) @@ (IRREGULAR :> in.irregular_datacube)
        @@ ("t1" :> in.tileid)

RECURSIVE spelled(_, _)
\* the string of a key whose fields are names
spelled(key, names) ==
    IF key = <<>> THEN <<>>
    ELSE (IF Has(names, Head(key)) THEN names[Head(key)] ELSE <<Head(key)>>)
             \o spelled(Tail(key), names)

\* prepare_merge, lines 278-279: the id of the counter row of a MERGE stage
merge_control_key(in, tile, p) ==
    LET activity == [NewActivity EXCEPT !.action = "merge", !.tileid = tile,
                                        !.start = PStart(p), !.end = PEnd(p)]
    IN spelled(encode_key(activity, <<"action", "irregular_datacube", "tileid",
                                      "start", "end">>), KeyNames(in))

\* prepare_merge, lines 299-312: a MERGE activity and its dynamoKey
merge_activity(in, tile, p, band, date) ==
    LET activity == [NewActivity EXCEPT !.action = "merge", !.tileid = tile,
                                        !.start = PStart(p), !.end = PEnd(p),
                                        !.period = p, !.band = band, !.date = date]
    IN [activity EXCEPT !.dynamoKey =
            spelled(encode_key(activity, <<"action", "irregular_datacube", "tileid",
                                           "date", "band">>), KeyNames(in))]

\* next_blend, lines 560 and 590-597: the BLEND activity of a band or an internal
\* band, which goes under the first band; its dynamoKey is the id of the counter
\* row of its stage
blend_activity(in, tile, p, name) ==
    LET internal_band == name \in Range(INTERNAL_BANDS)
        blendactivity == [NewActivity EXCEPT
                            !.action = "blend", !.tileid = tile,
                            !.start = PStart(p), !.end = PEnd(p), !.period = p,
                            !.band = IF internal_band THEN BANDS[1] ELSE name,
                            !.internal_band = IF internal_band THEN name ELSE @,
                            !.sk = <<name>>]
    IN [blendactivity EXCEPT !.dynamoKey =
            spelled(encode_key(blendactivity, <<"action", "datacube", "tileid",
                                                "start", "end">>), KeyNames(in))]

\* the activities the producers emit for the tiles and periods
KeyActivities(in) ==
    {merge_activity(in, tile, p, band, date) :
         <<tile, p, band, date>> \in {x \in KeyTiles \X Range(PERIODS) \X Range(BANDS)
                                            \X {"d1", "d2"} : x[4] \in DatesOf(x[2])}}
    \cup {blend_activity(in, tile, p, name) :
              <<tile, p, name>> \in KeyTiles \X Range(PERIODS)
                                      \X Range(BANDS \o INTERNAL_BANDS)}

\* the id under which the producer of the stage of an activity put the row
producer_key(in, activity) ==
    IF activity.action = "merge"
    THEN merge_control_key(in, activity.tileid, activity.period)
    ELSE blend_activity(in, activity.tileid, activity.period, QUALITY).dynamoKey

InitKeys ==
    /\ InitPipeline
    /\ exprs = {} /\ catalog[PERIODS[1]] # {}
    /\ blend_in = NoPixel /\ blend_px = NoPixel
    /\ merge_in = NoPixel /\ merge_px = NoPixel
    /\ call_in \in KeyInputs
    /\ call_st = [pc |-> "start"]

\* next_step, line 153, for two activities
KeysOf ==
    /\ call_st.pc = "start"
    /\ \E a \in KeyActivities(call_in), b \in KeyActivities(call_in) :
           call_st' = [pc |-> "keyed", a |-> a, b |-> b,
                       key_a |-> get_key_to_controltable(a),
                       key_b |-> get_key_to_controltable(b)]
    /\ UNCHANGED <<pipeline, blend_in, blend_px, merge_in, merge_px, call_in>>

NextKeys == KeysOf

SpecKeys == InitKeys /\ [][NextKeys]_vars

\* ------------------------------------------------------------- properties

\* the counter key of a stage of a period
StageKey(stage, p) ==
    <<stage, IF stage = "merge" THEN IRREGULAR ELSE DATACUBE, TILE, PStart(p), PEnd(p)>>

\* the activities of a stage of a period that have a record in the activity table
StageRecords(stage, p) ==
    {a \in Range(acts) : a.action = stage /\ a.start = PStart(p) /\ a.sk # <<"NOSCENES">>}

\* every next_step call on the row since it was put was for a different activity
CountedOnce(key) == \A id \in DOMAIN calls[key] : calls[key][id] = 1

\* the records waiting in pending whose counter key is key
PendingFor(key) == {a \in BagToSet(pending) : get_key_to_controltable(a) = key}

\* the stage of key is complete: as many activities as the row expects were
\* counted, each once, and the completion that observed it has run next_step
StageComplete(key) ==
    /\ Has(control, key)
    /\ CountedOnce(key)
    /\ control[key].mycount = control[key].total
    /\ control[key].total > 0
    /\ PendingFor(key) = {}

\* the fan-out of the stage after key's took place: its counter row was written
NextStageWritten(key) ==
    \E next \in DOMAIN control :
        /\ SubSeq(next, 2, Len(next)) = <<DATACUBE>> \o SubSeq(key, 3, Len(key))
        /\ \/ key[1] = "merge" /\ next[1] = "blend"
           \/ key[1] = "blend" /\ next[1] \in {"posblend", "publish"}
           \/ key[1] = "posblend" /\ next[1] = "publish"

\* C1: for every MERGE, BLEND or POSBLEND counter row whose activities were all
\* counted, each once, the transition out of the stage ran exactly once and the
\* next stage was fanned out (its counter row exists).
C1_FanOutExactlyOnce ==
    \A key \in DOMAIN control :
        (key[1] # "publish" /\ StageComplete(key)) =>
            (fired[key] = 1 /\ NextStageWritten(key))

\* C2: a completion counted by solo whose increment returns a mycount different
\* from the row's total puts nothing in motion: no transition is pending after it.
C2_SilentUnlessEqual ==
    [][\A id \in DOMAIN stream :
         LET activity == Head(stream[id])
             key == get_key_to_controltable(activity)
         IN (/\ Solo(id)
             /\ activity.mystatus = "DONE"
             /\ key \in DOMAIN control
             /\ control'[key].mycount # control'[key].total)
            => pending' = pending]_vars

\* C3: a BLEND message is in the queue only when every MERGE activity of its
\* period is recorded DONE, a POSBLEND message only when every BLEND activity
\* is, and a PUBLISH message only when every BLEND and POSBLEND activity is.
C3_StrictStageOrder ==
    \A m \in BagToSet(sqs) : \A p \in Range(PERIODS) :
        m.start = PStart(p) =>
            /\ m.action = "blend" =>
                 \A a \in StageRecords("merge", p) : a.mystatus = "DONE"
            /\ m.action = "posblend" =>
                 \A a \in StageRecords("blend", p) : a.mystatus = "DONE"
            /\ m.action = "publish" =>
                 \A a \in StageRecords("blend", p) \cup StageRecords("posblend", p) :
                     a.mystatus = "DONE"

\* C4: every counter row has 0 <= mycount <= totalInstancesToBeDone.
C4_CountWithinTotal ==
    \A key \in DOMAIN control :
        control[key].mycount >= 0 /\ control[key].mycount <= control[key].total

\* the step is one (tile, period) of prepare_merge
IsPreparePeriod == run.pc \in 1..Len(PERIODS) /\ run'.pc # run.pc

\* C5 as stated: no put_control_table ever lowered the mycount of a row that
\* was there.
C5_NeverReset == rewritten = {}

\* C5 amended: solo and next_step never lower mycount or change the total of a
\* row; when the mycount of a row that stays goes down, a producer rewrote the
\* row with put_control_table (or prepare_merge with force removed it first).
C5_ResetOnlyByProducers ==
    [][\A key \in DOMAIN control \cap DOMAIN control' :
         /\ control'[key].total = control[key].total
         /\ (\E id \in DOMAIN stream : Solo(id)) =>
                control'[key].mycount \in {control[key].mycount, control[key].mycount + 1}
         /\ control'[key].mycount < control[key].mycount =>
                \/ key \in rewritten'
                \/ IsPreparePeriod /\ run.force]_vars

\* a producer has reset a row that had counted completions
C5_Witness == rewritten # {}

\* the publish.ALLBANDS activity of the period is recorded DONE
PublishDone(p) ==
    /\ Has(acts, <<StageKey("publish", p), <<"ALLBANDS">>>>)
    /\ acts[<<StageKey("publish", p), <<"ALLBANDS">>>>].mystatus = "DONE"

\* C6: prepare_merge with force=false on a (tile, period) whose publish.ALLBANDS
\* is DONE changes no counter row, no activity record, no queue and no stream,
\* calls next_step for nothing, and records the period as not started.
C6_PublishedPeriodUntouched ==
    [][(IsPreparePeriod /\ ~run.force /\ PublishDone(PERIODS[run.pc])) =>
         /\ UNCHANGED <<control, acts, sqs, stream, s3, pending, calls, fired>>
         /\ run'.not_started = run.not_started \cup {PERIODS[run.pc]}]_vars

\* a second run has skipped a published period
C6_Witness ==
    /\ run.n = 2
    /\ \E p \in run.not_started : PublishDone(p) /\ Has(control, StageKey("publish", p))

\* C7: after prepare_merge with force=true has prepared a (tile, period), no
\* blend, posblend or publish activity record of it is left in the activity table.
C7_ForceClearsActivities ==
    [][(IsPreparePeriod /\ run.force) =>
         \A a \in Range(acts') :
             a.start = PStart(PERIODS[run.pc]) => a.action = "merge"]_vars

PeriodIndex(p) == CHOOSE i \in 1..Len(PERIODS) : PERIODS[i] = p

\* prepare_merge has gone through period p at least once
Prepared(p) == run.n > 1 \/ (run.n = 1 /\ (run.pc = 0 \/ run.pc > PeriodIndex(p)))

\* the records of period p in the activity table and on the stream
RecordsOf(p) ==
    {a \in Range(acts) \cup UNION {Range(stream[id]) : id \in DOMAIN stream} :
        a.start = PStart(p)}

\* what prepare_merge does for period p when nothing was prepared before it
FreshlyPrepared(p, force) ==
    prepare_merge_period([Stores EXCEPT !.control = <<>>, !.acts = <<>>, !.sqs = EmptyBag,
                                        !.stream = <<>>],
                         prepare_merge_activity(force, exprs, regular, FALSE),
                         p, force, catalog[p]).st

\* C8: for a (tile, period) with no scene, prepare_merge writes one record, with
\* sk NOSCENES and mystatus ERROR, and enqueues nothing; no activity and no
\* counter row of a later stage ever exists for it; and in the first run the
\* periods with scenes get the messages and records they get when prepared alone.
C8_NoScenes ==
    /\ [](\A p \in Range(PERIODS) : catalog[p] = {} =>
            /\ \A m \in BagToSet(sqs) \cup BagToSet(pending) : m.start # PStart(p)
            /\ \A a \in RecordsOf(p) :
                   a.action = "merge" /\ a.sk = <<"NOSCENES">> /\ a.mystatus = "ERROR"
            /\ Prepared(p) => RecordsOf(p) # {}
            /\ \A stage \in {"blend", "posblend", "publish"} :
                   ~Has(control, StageKey(stage, p)))
    /\ [][(IsPreparePeriod /\ run.n = 1 /\ catalog[PERIODS[run.pc]] # {}) =>
            LET alone == FreshlyPrepared(PERIODS[run.pc], run.force)
            IN /\ sqs' = sqs (+) alone.sqs
               /\ \A k \in DOMAIN alone.acts : Has(acts', k) /\ acts'[k] = alone.acts[k]
               /\ \A k \in DOMAIN alone.control :
                      Has(control', k) /\ control'[k] = alone.control[k]]_vars

\* a period without scenes has its NOSCENES record while the other period of the
\* run went on to BLEND
C8_Witness ==
    \E p \in Range(PERIODS), q \in Range(PERIODS) :
        /\ catalog[p] = {}
        /\ \E a \in Range(acts) : a.start = PStart(p) /\ a.sk = <<"NOSCENES">>
        /\ Has(control, StageKey("blend", q))

\* C9: when solo consumes a record with mystatus ERROR, the errors field of one
\* counter row goes up by one and no mycount changes.
C9_ErrorCounted ==
    [][\A id \in DOMAIN stream :
         (Solo(id) /\ Head(stream[id]).mystatus = "ERROR") =>
             /\ \E key \in DOMAIN control :
                    Has(control', key) /\ control'[key].errors = control[key].errors + 1
             /\ \A key \in DOMAIN control :
                    Has(control', key) /\ control'[key].mycount = control[key].mycount]_vars

\* the worker has something to read or write for the message
HasSourceIO(m) ==
    CASE m.action = "merge" -> m.force \/ m.ARDfile \notin s3
      [] m.action = "posblend" ->
           \E k \in posblend_outputs(m) : m.force \/ k \notin s3
      [] OTHER -> TRUE

\* C10 as stated: a worker invocation in which an input or the object store
\* fails crashes: the exception leaves the stage function and no record is put
\* on the stream.
C10_FailureCrashes ==
    [][\A m \in BagToSet(sqs), redeliver \in BOOLEAN :
         (Work(m, "source", redeliver) /\ HasSourceIO(m)) =>
             (crashed' # crashed /\ stream' = stream)]_vars

\* C10 amended: the failure is caught inside the stage function: the invocation
\* returns, the activity goes on the stream with mystatus ERROR, and the message
\* leaves the queue (unless the queue delivers it twice).
C10_FailureRecorded ==
    [][\A m \in BagToSet(sqs), redeliver \in BOOLEAN :
         (Work(m, "source", redeliver) /\ HasSourceIO(m)) =>
             /\ crashed' = crashed
             /\ LET id == ActId(stage_function(m, s3, "none").record)
                IN /\ Has(stream', id)
                   /\ Len(stream'[id]) = Len(Get(stream, id, <<>>)) + 1
                   /\ stream'[id][Len(stream'[id])].mystatus = "ERROR"
                   /\ stream'[id][Len(stream'[id])].errors # Missing
             /\ ~redeliver => sqs' = sqs (-) SetToBag({m})]_vars

\* a failed invocation was recorded as ERROR in the activity table
C10_Witness ==
    /\ fails > 0
    /\ crashed = {}
    /\ \E a \in Range(acts) : a.mystatus = "ERROR" /\ a.errors = "io"

\* the objects a recorded activity declares as its outputs: the ARDfile of a merge;
\* the STKfile and MEDfile of a band, or the internal band file of each composite
\* function, as next_publish expects them (lines 1215-1233); the index file(s)
DeclaredOutputs(a) ==
    CASE a.action = "merge" -> {a.ARDfile}
      [] a.action = "blend" ->
           IF a.internal_band = Missing
           THEN {FileField(a, f) : f \in {g \in Range(FUNCTIONS) :
                     g # "IDT" /\ ~(g = "MED" /\ a.band = QUALITY)}}
           ELSE {WithBand(FileField(a, f), a.internal_band) :
                     f \in BlendSkipFunctions(a.internal_band)}
      [] a.action = "posblend" -> posblend_outputs(a)
      [] OTHER -> {}

\* C11: every activity recorded DONE has its declared output objects in the
\* bucket (merge: ARDfile; blend: STK/MED files or internal band files;
\* posblend: index files)
C11_DoneHasOutputs ==
    \A id \in DOMAIN acts :
        acts[id].mystatus = "DONE" => DeclaredOutputs(acts[id]) \subseteq s3

\* ------------------------------------------------ properties of one pixel

\* the scenes of the pixel whose quality value is a clear class and whose
\* band value is data
ClearScenes ==
    {d \in DOMAIN blend_in.scenes :
        /\ blend_in.scenes[d].quality \in blend_in.mask.clear_data
        /\ blend_in.scenes[d].raster # blend_nodata(blend_in)}

\* the scenes of the pixel whose band value is data
ValidScenes ==
    {d \in DOMAIN blend_in.scenes : blend_in.scenes[d].raster # blend_nodata(blend_in)}

\* C12: blend reads the scenes in order of descending efficacy, and scenes of
\* equal efficacy in ascending (lexicographic) order of their date_key
C12_SceneOrder ==
    blend_px.pc \in {"scenes", "done"} =>
        \A i, j \in 1..Len(blend_px.order) :
            i < j =>
                LET a == blend_px.order[i]
                    b == blend_px.order[j]
                IN \/ blend_in.scenes[a].efficacy > blend_in.scenes[b].efficacy
                   \/ /\ blend_in.scenes[a].efficacy = blend_in.scenes[b].efficacy
                      /\ KeyLess(a, b)

\* C13: three dates, the first one and one other fully clear with equal
\* efficacy, the third fully cloudy: STK holds the value of the first date,
\* PROVENANCE its day of year, and CLEAROB is 2
C13_TwoClearOneCloudy ==
    /\ blend_px.pc = "done"
    /\ blend_in.band # QUALITY
    /\ Cardinality(DOMAIN blend_in.scenes) = 3
    /\ Cardinality({d \in ClearScenes : blend_in.scenes[d].efficacy = 100}) = 2
    /\ Cardinality({d \in DOMAIN blend_in.scenes :
                       /\ blend_in.scenes[d].quality \in blend_in.mask.not_clear_data
                       /\ blend_in.scenes[d].efficacy = 0}) = 1
    /\ \E first \in ClearScenes : \A d \in DOMAIN blend_in.scenes : ~KeyLess(d, first)
    => LET first == CHOOSE f \in ClearScenes :
                        \A d \in DOMAIN blend_in.scenes : ~KeyLess(d, f)
       IN /\ blend_px.stack_raster = blend_in.scenes[first].raster
          /\ blend_px.provenance_array = tm_yday(first)
          /\ blend_px.count_raster = 2

\* C14: CLEAROB is the number of scenes whose quality value is in clear_data
\* and whose band value is not nodata
C14_ClearObservations ==
    blend_px.pc = "done" /\ blend_in.band # QUALITY
    => blend_px.count_raster = Cardinality(ClearScenes)

\* C15: TOTALOB is the number of scenes whose band value is not nodata
C15_TotalObservations ==
    blend_px.pc = "done" /\ blend_in.band # QUALITY
    => blend_px.stack_total_observation = Cardinality(ValidScenes)

\* C16: PROVENANCE is the day of year of the clear scene whose value STK holds,
\* and -1 where no scene is clear
C16_Provenance ==
    blend_px.pc = "done" /\ blend_in.band # QUALITY
    => IF ClearScenes # {}
       THEN \E d \in ClearScenes :
                /\ blend_px.stack_raster = blend_in.scenes[d].raster
                /\ blend_px.provenance_array = tm_yday(d)
       ELSE blend_px.provenance_array = -1

\* C17: where notdonemask is still true after the last scene, STK and MED hold
\* the fill value (mask.nodata for the quality band, the cube nodata otherwise)
C17_FillWhereNotDone ==
    blend_px.pc = "done" /\ blend_px.notdonemask
    => /\ blend_px.stack_raster = blend_nodata(blend_in)
       /\ blend_px.median_raster = blend_nodata(blend_in)

\* the links read so far whose value at the pixel is not nodata
ValidLinks ==
    {k \in 1..(merge_px.i - 1) : merge_in.links[k] # merge_nodata(merge_in)}

\* C18: for a band that is not the quality band, or a Sentinel-2/Landsat
\* quality band whose mask nodata is not 0, the pixel holds the value of the
\* last link read so far that is not nodata, and nodata if there is none
C18_LastValidWins ==
    /\ merge_px.pc = "links"
    /\ merge_in.band # QUALITY \/ is_sentinel_landsat_quality_fmask(merge_in)
    => merge_px.raster_merge =
          IF ValidLinks = {} THEN merge_nodata(merge_in)
          ELSE merge_in.links[CHOOSE k \in ValidLinks : \A j \in ValidLinks : j <= k]

\* three links were composed: two with different data, then one without
C18_Witness ==
    /\ merge_px.pc = "links"
    /\ merge_in.band # QUALITY
    /\ Len(merge_in.links) = 3 /\ merge_px.i = 4
    /\ merge_in.links[1] # NODATA /\ merge_in.links[2] # NODATA
    /\ merge_in.links[1] # merge_in.links[2]
    /\ merge_in.links[3] = NODATA
    /\ merge_px.raster_merge = merge_in.links[2]

\* C19: for a quality band composed by the mask product, after the last link
\* the pixel holds the value of the first link that is not nodata, and 0 if
\* there is none
C19_FirstValidKept ==
    /\ merge_px.pc = "links"
    /\ merge_px.i > Len(merge_in.links)
    /\ merge_in.band = QUALITY /\ ~is_sentinel_landsat_quality_fmask(merge_in)
    => merge_px.raster_merge =
          IF ValidLinks = {} THEN 0
          ELSE merge_in.links[CHOOSE k \in ValidLinks : \A j \in ValidLinks : k <= j]


\* the POSBLEND messages of index i that the step has added to the queue
PosblendEmitted(i) ==
    {m \in BagToSet(sqs') :
        /\ m.action = "posblend" /\ m.sk[1] = i
        /\ CopiesIn(m, sqs') > CopiesIn(m, sqs)}

\* next_posblend finds the POSBLEND activity of index i of the blend activity
\* recorded DONE for the same instances (lines 1062-1074)
PosblendSeen(blendactivity, i) ==
    LET id == Replace(blendactivity.dynamoKey, "blend", <<"posblend">>)
    IN /\ HasItem(Stores, id, <<i>>)
       /\ Item(Stores, id, <<i>>).mystatus = "DONE"
       /\ Item(Stores, id, <<i>>).instancesToBeDone = blendactivity.instancesToBeDone

\* C20: with indexes_only_regular_cube set, no POSBLEND activity is made for a
\* date: every one carries the name of an index alone, and a next_posblend that
\* has its inputs sends exactly one for each index it does not find DONE (and
\* none is forced); publish puts the indexes among the assets of the item of the
\* regular cube and among those of no item of a date, and asks of no scene the
\* file of an index.
C20_RegularCubeOnly ==
    [][regular =>
         /\ \A m \in BagToSet(sqs') :
                m.action = "posblend" => m.sk \in {<<i>> : i \in exprs}
         /\ \A a \in BagToSet(pending) :
                (/\ Transition(a)
                 /\ a.action = "blend" /\ a.bands_expressions # {}
                 /\ ~IndexInputsRaise(Stores, a.dynamoKey, a)) =>
                    \A i \in a.bands_expressions :
                        IF PosblendSeen(a, i) /\ ~a.force
                        THEN PosblendEmitted(i) = {}
                        ELSE \E m \in BagToSet(sqs') :
                               /\ PosblendEmitted(i) = {m}
                               /\ CopiesIn(m, sqs') = CopiesIn(m, sqs) + 1
         /\ \A n \in DOMAIN assets' :
                /\ n[1] = IRREGULAR => assets'[n] \cap exprs = {}
                /\ n[1] = DATACUBE => exprs \subseteq assets'[n]
         /\ \A m \in BagToSet(sqs) :
                m.action = "publish" =>
                    /\ m.ARDfiles \cap m.indexes = {}
                    /\ ~publish_missing(m)]_vars

\* a cube of indexes for the regular cube only has been published: its item
\* carries the index, the items of its dates are there without it, and the
\* POSBLEND stage had one activity, that of the index
C20_Witness ==
    /\ regular /\ exprs # {}
    /\ \E p \in Range(PERIODS) : PublishDone(p)
    /\ \E n \in DOMAIN assets : n[1] = DATACUBE /\ exprs \subseteq assets[n]
    /\ \E n \in DOMAIN assets : n[1] = IRREGULAR /\ assets[n] = Range(BANDS)
    /\ \E a \in Range(acts) : a.action = "posblend" /\ a.sk = <<INDEX>>
                                 /\ a.mystatus = "DONE"

\* C21 as stated: a publish invocation that ends with the activity in ERROR has
\* committed no item to the catalog: the items of the (tile, period) are
\* committed all together or not at all.
C21_CommitAllOrNone ==
    [][\A m \in BagToSet(sqs), io \in IO, redeliver \in BOOLEAN :
         (/\ Work(m, io, redeliver)
          /\ m.action = "publish"
          /\ publish(m, s3, io).record.mystatus = "ERROR") =>
             assets' = assets]_vars

\* the MERGE messages of a bag whose counter key is key
MergeMessages(bag, key) ==
    {m \in BagToSet(bag) : m.action = "merge" /\ get_key_to_controltable(m) = key}

RECURSIVE Copies(_, _)
\* how many messages of the set S the bag holds
Copies(bag, S) ==
    IF S = {} THEN 0
    ELSE LET m == CHOOSE x \in S : TRUE
         IN CopiesIn(m, bag) + Copies(bag, S \ {m})

RECURSIVE Calls(_)
\* how many next_step calls a row has recorded
Calls(f) ==
    IF DOMAIN f = {} THEN 0
    ELSE LET id == CHOOSE x \in DOMAIN f : TRUE
         IN f[id] + Calls([y \in DOMAIN f \ {id} |-> f[y]])

\* C22 as stated: when prepare_merge has prepared a (tile, period), the MERGE
\* activities it enqueued plus those it counted through next_step are as many as
\* the totalInstancesToBeDone of the counter row it wrote, and no two of them
\* have the same (dynamoKey, sk).
C22_EmittedEqualsTotal ==
    [][(IsPreparePeriod /\ run'.not_started = run.not_started) =>
         LET key == StageKey("merge", PERIODS[run.pc])
             before == MergeMessages(sqs, key)
             after == MergeMessages(sqs', key)
         IN /\ Has(control', key)
            /\ (Copies(sqs', after) - Copies(sqs, before)) + Calls(calls'[key])
                   = control'[key].total
            /\ \A m \in after : CopiesIn(m, sqs') = 1 /\ ActId(m) \notin DOMAIN calls'[key]
            /\ \A m \in after, n \in after : ActId(m) = ActId(n) => m = n
            /\ \A id \in DOMAIN calls'[key] : calls'[key][id] = 1]_vars

\* the MERGE messages of activity id that the step has added to the queue
MergeEnqueued(key, id) ==
    Copies(sqs', {m \in MergeMessages(sqs', key) : ActId(m) = id})
        - Copies(sqs, {m \in MergeMessages(sqs, key) : ActId(m) = id})

\* C23 as stated: when prepare_merge with force=false prepares a (tile, period),
\* a MERGE activity recorded DONE whose ARD file exists is not enqueued again and
\* is counted exactly once on the new counter row through next_step; a recorded
\* MERGE activity that is not DONE, or whose file is missing, has its record
\* replaced by a NOTDONE one and is enqueued.
C23_RecoveryPath ==
    [][(IsPreparePeriod /\ ~run.force /\ run'.not_started = run.not_started) =>
         LET key == StageKey("merge", PERIODS[run.pc])
         IN \A a \in StageRecords("merge", PERIODS[run.pc]) :
              IF a.mystatus = "DONE" /\ a.ARDfile \in s3
              THEN /\ MergeEnqueued(key, ActId(a)) = 0
                   /\ Has(calls'[key], ActId(a)) /\ calls'[key][ActId(a)] = 1
                   /\ Has(acts', ActId(a)) /\ acts'[ActId(a)] = a
              ELSE /\ MergeEnqueued(key, ActId(a)) = 1
                   /\ ~Has(calls'[key], ActId(a))
                   /\ Has(acts', ActId(a)) /\ acts'[ActId(a)].mystatus = "NOTDONE"]_vars

\* C24 as stated: for a MERGE activity without force whose ARD file exists,
\* merge_warped deletes the object only when opening or reading it failed; when
\* the object is read it returns with the activity recorded DONE, no object
\* deleted and none written, whatever else fails in the invocation.
C24_DeleteOnlyUnreadable ==
    [][\A m \in BagToSet(sqs), io \in MergeIO, redeliver \in BOOLEAN :
         (WorkMerge(m, io, redeliver) /\ ~m.force /\ m.ARDfile \in s3) =>
             LET r == merge_warped(m, s3, io)
             IN /\ r.deleted # {} => io \in {"cache", "both"}
                /\ io \notin {"cache", "both"} =>
                       /\ r.record.mystatus = "DONE"
                       /\ r.written = {}
                       /\ s3' = s3]_vars

\* C25 as stated: a MERGE activity that is built from its sources, all of which
\* open, and whose COG is written, is recorded DONE, whether the grid comes from
\* the extent and resolution of the tile or from the shape of the activity.
C25_BuiltIsDone ==
    [][\A m \in BagToSet(sqs), io \in MergeIO, redeliver \in BOOLEAN :
         (/\ WorkMerge(m, io, redeliver)
          /\ io \in {"none", "cache", "record"}
          /\ merge_warped(m, s3, io).written # {}) =>
             /\ m.ARDfile \in s3'
             /\ LET id == ActId(m)
                IN /\ Has(stream', id)
                   /\ stream'[id][Len(stream'[id])].mystatus = "DONE"]_vars

\* the source nodata of the priority rule, for one source taken alone
NodataByPriority(in, profile) ==
    IF profile.nodata # <<>> THEN profile.nodata[1]
    ELSE IF in.source_nodata # <<>> THEN in.source_nodata[1]
    ELSE IF IsLandsat(in.satellite) /\ in.band # QUALITY
    THEN (IF profile.dtype = "int16" THEN NODATA ELSE 0)
    ELSE IF IsCbers(in.satellite) /\ in.band # QUALITY
    THEN NODATA
    ELSE 0

\* C26 as stated: the nodata merge_warped uses for a source is the one the
\* priority rule gives for that source alone: the nodata of its profile, else the
\* source_nodata of the activity, else the default of the satellite family, else
\* 0, whatever sources were read before it.
C26_NodataByPriority ==
    merge_px.pc = "links" =>
        \A i \in 1..Len(merge_px.kwargs) :
            merge_px.kwargs[i] = NodataByPriority(merge_in, merge_in.links[i])

\* the band whose MERGE files a BLEND activity of that name reads
BandOf(name) == IF name \in Range(INTERNAL_BANDS) THEN BANDS[1] ELSE name

\* the activity table holds a DONE MERGE activity of the band for every date of
\* the period
MergesFound(table, band, p) ==
    \A d \in catalog[p] :
        /\ Has(table, <<<<"merge", IRREGULAR, TILE, d, band>>, <<d>>>>)
        /\ table[<<<<"merge", IRREGULAR, TILE, d, band>>, <<d>>>>].mystatus = "DONE"

\* the step has run next_blend for period p: a transition out of its MERGE stage
NextBlendRan(p) ==
    LET key == StageKey("merge", p)
    IN /\ Has(fired', key)
       /\ fired'[key] > (IF IsPreparePeriod /\ PERIODS[run.pc] = p THEN 0
                         ELSE Get(fired, key, 0))

\* the BLEND messages of name sk of period p that the step has added to the queue
BlendEnqueued(p, sk) ==
    LET of(bag) == {m \in BagToSet(bag) : m.action = "blend" /\ m.start = PStart(p)
                                            /\ m.sk = sk}
    IN Copies(sqs', of(sqs')) - Copies(sqs, of(sqs))

\* C27 as stated: next_blend enqueues a BLEND activity only for a band whose
\* MERGE activities were all found DONE; when MERGE activities of one of the
\* bands are missing or not DONE, it enqueues nothing for that band and records
\* blend.ALLBANDS with mystatus ERROR.
C27_BlendOnlyAfterMerges ==
    [][\A p \in Range(PERIODS) : NextBlendRan(p) =>
         \A name \in Range(BANDS) \cup Range(INTERNAL_BANDS) :
             ~MergesFound(acts', BandOf(name), p) =>
                 /\ BlendEnqueued(p, <<name>>) = 0
                 /\ LET id == <<StageKey("blend", p), <<"ALLBANDS">>>>
                    IN /\ Has(stream', id)
                       /\ stream'[id][Len(stream'[id])].mystatus = "ERROR"]_vars

\* the names of the BLEND activities of a period: bands + internal_bands
BlendNames == Range(BANDS) \cup Range(INTERNAL_BANDS)

\* the BLEND messages of period p in a bag
BlendMessages(bag, p) ==
    {m \in BagToSet(bag) : m.action = "blend" /\ m.start = PStart(p)}

\* C28: when next_blend runs and the MERGE activities of every band are found
\* DONE, the BLEND counter row is left with totalInstancesToBeDone = |bands| +
\* |internal_bands| and a count that started from 0; each band and each internal
\* band got exactly one BLEND activity under its own name, either enqueued or
\* counted through next_step, and nothing else was emitted, so that the
\* activities emitted are as many as the total of the row.
C28_OnePerBand ==
    [][\A p \in Range(PERIODS) :
         (NextBlendRan(p) /\ \A name \in BlendNames : MergesFound(acts', BandOf(name), p)) =>
             LET key == StageKey("blend", p)
             IN /\ Has(control', key)
                /\ control'[key].total = Len(BANDS) + Len(INTERNAL_BANDS)
                /\ control'[key].mycount = Calls(calls'[key])
                /\ \A name \in BlendNames :
                       BlendEnqueued(p, <<name>>) + Get(calls'[key], <<key, <<name>>>>, 0) = 1
                /\ (Copies(sqs', BlendMessages(sqs', p)) - Copies(sqs, BlendMessages(sqs, p)))
                       + Calls(calls'[key]) = control'[key].total]_vars

\* in a second run next_blend found every MERGE of a period: the BLEND
\* activities it found complete are counted on the new row, the others wait in
\* the queue, and together they are the total of the row
C28_Witness ==
    \E p \in Range(PERIODS) :
        LET key == StageKey("blend", p)
        IN /\ run.n = 2 /\ catalog[p] # {}
           /\ \A name \in BlendNames : MergesFound(acts, BandOf(name), p)
           /\ Has(control, key) /\ control[key].total = Len(BANDS) + Len(INTERNAL_BANDS)
           /\ control[key].mycount > 0
           /\ \A name \in BlendNames :
                  /\ Has(acts, <<key, <<name>>>>)
                  /\ IF acts[<<key, <<name>>>>].mystatus = "DONE"
                     THEN Get(calls[key], <<key, <<name>>>>, 0) = 1
                     ELSE /\ acts[<<key, <<name>>>>].mystatus = "NOTDONE"
                          /\ BagIn(acts[<<key, <<name>>>>], sqs)
           /\ \E name \in BlendNames : acts[<<key, <<name>>>>].mystatus = "NOTDONE"

\* the BLEND activities of the quality band itself, recorded or waiting
QualityBlends ==
    {a \in Range(acts) \cup BagToSet(sqs) :
        a.action = "blend" /\ a.band = QUALITY /\ a.internal_band = Missing}

\* C29: the BLEND activity of the quality band produces only an STK output: it
\* declares no MED output key, and the blend worker that takes it writes no MED
\* object.
C29_QualityOnlySTK ==
    \A a \in QualityBlends :
        /\ a.MEDfile = <<>>
        /\ \A k \in blend(a, s3, "none").s3 \ s3 : k[1] # "MED"

\* C30: in a next_blend that found every MERGE, a band whose BLEND activity is
\* recorded DONE with the same instancesToBeDone and with every output it
\* declares in the bucket is, without force, not enqueued again and counted
\* exactly once through next_step; with force, or with one of those outputs
\* missing, its record is removed and the band is emitted again NOTDONE; a band
\* with no DONE record is always emitted NOTDONE.
C30_SkipIfExists ==
    [][\A p \in Range(PERIODS) :
         (NextBlendRan(p) /\ \A name \in BlendNames : MergesFound(acts', BandOf(name), p)) =>
             \A name \in BlendNames :
                 LET key == StageKey("blend", p)
                     id == <<key, <<name>>>>
                     done == Has(acts, id) /\ acts[id].mystatus = "DONE"
                     same == acts[id].instancesToBeDone = Cardinality(catalog[p])
                     present == DeclaredOutputs(acts[id]) \subseteq s3
                 IN IF done /\ same /\ present /\ ~run.force
                    THEN /\ BlendEnqueued(p, <<name>>) = 0
                         /\ Get(calls'[key], id, 0) = 1
                    ELSE /\ BlendEnqueued(p, <<name>>) = 1
                         /\ \A m \in BlendMessages(sqs', p) \ BlendMessages(sqs, p) :
                                m.mystatus = "NOTDONE"
                         /\ (done /\ same) =>
                                ~(Has(acts', id) /\ acts'[id].mystatus = "DONE")]_vars

\* the first key, in the order blend reads the scenes, that is in S
FirstOf(order, S) ==
    order[CHOOSE i \in 1..Len(order) :
              order[i] \in S /\ \A j \in 1..(i - 1) : order[j] \notin S]

\* C31: at every pixel STK is the band value of the first scene, in processing
\* order, that is clear there (quality value in clear_data and band value not
\* nodata); with no clear scene, the band value of the first scene whose band
\* value is not nodata; with no data at all, nodata.
C31_BestPixel ==
    blend_px.pc = "done"
    => blend_px.stack_raster =
           IF ClearScenes # {}
           THEN blend_in.scenes[FirstOf(blend_px.order, ClearScenes)].raster
           ELSE IF ValidScenes # {}
           THEN blend_in.scenes[FirstOf(blend_px.order, ValidScenes)].raster
           ELSE blend_nodata(blend_in)

\* the step has run next_posblend for period p: a transition out of its BLEND
\* stage with band expressions configured
NextPosblendRan(p) ==
    LET key == StageKey("blend", p)
    IN /\ exprs # {}
       /\ Has(fired', key)
       /\ fired'[key] > (IF NextBlendRan(p) /\ MergesFound(acts', QUALITY, p) THEN 0
                         ELSE Get(fired, key, 0))

\* the sk of the POSBLEND activities of a period: one per index, and one per
\* index and date unless the indexes are for the regular cube only
PosblendNames(p) ==
    {<<i>> : i \in exprs}
    \cup (IF regular THEN {}
          ELSE {<<i, "IDT", d>> : i \in exprs, d \in catalog[p]})

\* the POSBLEND messages of name sk of period p that the step has added to the queue
PosblendEnqueued(p, sk) ==
    LET of(bag) == {m \in BagToSet(bag) : m.action = "posblend" /\ m.start = PStart(p)
                                            /\ m.sk = sk}
    IN Copies(sqs', of(sqs')) - Copies(sqs, of(sqs))

\* C32: next_posblend leaves the POSBLEND counter row with totalInstancesToBeDone
\* = |bands_expressions| when indexes_only_regular_cube is set and
\* |bands_expressions| * (|scenes| + 1) otherwise; under each sk (the index, and
\* the index with IDT and a date) it emits exactly one activity, enqueued or
\* counted through next_step, and nothing under another sk, so that the
\* activities emitted are as many as the total of the row.
C32_PosblendTotal ==
    [][\A p \in Range(PERIODS) : NextPosblendRan(p) =>
         LET key == StageKey("posblend", p)
             of(bag) == {m \in BagToSet(bag) : m.action = "posblend" /\ m.start = PStart(p)}
         IN /\ Has(control', key)
            /\ control'[key].total =
                   Cardinality(exprs) * (IF regular THEN 1 ELSE Cardinality(catalog[p]) + 1)
            /\ \A sk \in PosblendNames(p) :
                   PosblendEnqueued(p, sk) + Get(calls'[key], <<key, sk>>, 0) = 1
            /\ (Copies(sqs', of(sqs')) - Copies(sqs, of(sqs))) + Calls(calls'[key])
                   = control'[key].total]_vars

\* in a second run the index of a period was found DONE and counted on the new
\* POSBLEND row while the activities of its dates, emitted again, wait in the
\* queue: together they are the total of the row
C32_Witness ==
    \E p \in Range(PERIODS) :
        LET key == StageKey("posblend", p)
        IN /\ ~regular /\ exprs # {} /\ catalog[p] # {} /\ run.n = 2
           /\ Has(control, key)
           /\ control[key].total = Cardinality(exprs) * (Cardinality(catalog[p]) + 1)
           /\ control[key].mycount = Cardinality(exprs)
           /\ \A i \in exprs :
                  /\ Get(calls[key], <<key, <<i>>>>, 0) = 1
                  /\ \A d \in catalog[p] :
                         \E m \in BagToSet(sqs) :
                             m.action = "posblend" /\ m.sk = <<i, "IDT", d>>

\* the POSBLEND activities waiting for a worker that carry their inputs
PosblendWaiting ==
    {m \in BagToSet(sqs) : m.action = "posblend" /\ m.indexesToBe # Missing}

\* C33 as stated: for each target of a POSBLEND activity, posblend evaluates the
\* index and writes its file unless force is set and the file exists; in every
\* other combination of force and file existence the index is evaluated.
C33_EvaluatedUnlessForced ==
    \A m \in PosblendWaiting :
        \A k \in posblend_outputs(m) :
            k \in posblend_todo(m, s3) <=> ~(m.force /\ k \in s3)

\* C33 amended: for each target of a POSBLEND activity, posblend evaluates the
\* index and writes its file unless force is unset and the file exists: with
\* force every target is evaluated again, without force only the missing ones,
\* and after the worker every target has its file.
C33_EvaluatedUnlessPresent ==
    \A m \in PosblendWaiting :
        /\ \A k \in posblend_outputs(m) :
               k \in posblend_todo(m, s3) <=> (m.force \/ k \notin s3)
        /\ posblend(m, s3, "none").s3 = s3 \cup posblend_outputs(m)
        /\ posblend(m, s3, "none").record.mystatus = "DONE"

\* in a second run without force a POSBLEND activity waits whose files are all
\* in the bucket already: its worker evaluates nothing
C33_Witness ==
    \E m \in PosblendWaiting :
        /\ posblend_outputs(m) # {} /\ posblend_outputs(m) \subseteq s3
        /\ ~m.force /\ posblend_todo(m, s3) = {}
        /\ run.n = 2

\* the intervals of the timeline that lie within [start_date, end_date]
IntervalsWithin ==
    {w \in Range(call_st.timeline) :
        w[1] >= call_in.start_date /\ w[2] <= call_in.end_date}

\* the items orchestrate returned, as <<tile, period>>
ItemsReturned ==
    UNION {{<<t, w>> : w \in DOMAIN call_st.items[t]} : t \in DOMAIN call_st.items}

\* C34: orchestrate returns, for every requested tile and every interval of the
\* timeline within [start_date, end_date], one item under the period, whose id
\* is cube name + version + tile + period; no two items share an id; no item
\* is returned for an interval that starts before start_date or ends after
\* end_date.
C34_OneItemPerTilePeriod ==
    call_st.pc = "done" =>
        /\ \A t \in call_in.tiles : \A w \in IntervalsWithin :
               /\ <<t, w>> \in ItemsReturned
               /\ call_st.items[t][w].id = <<IRREGULAR, "v1", t, w[1], w[2]>>
        /\ \A x, y \in ItemsReturned :
               call_st.items[x[1]][x[2]].id = call_st.items[y[1]][y[2]].id => x = y
        /\ \A x \in ItemsReturned : x[2] \in IntervalsWithin

\* prepare_merge has returned and nothing waits in the queue, on the stream or
\* for a transition: no handler will run any more
Drained ==
    /\ run.n > 0 /\ run.pc = 0
    /\ sqs = EmptyBag /\ stream = <<>> /\ pending = EmptyBag

\* C35: when every worker invocation succeeds and every message is delivered
\* and processed exactly once, a (tile, period) with at least one scene goes
\* through MERGE, BLEND, POSBLEND (when indexes are configured) and PUBLISH and
\* publish.ALLBANDS eventually is DONE: the pipeline does not come to rest, with
\* no activity left to process, before publish.ALLBANDS of the period is DONE.
C35_PublishedAtRest ==
    \A p \in Range(PERIODS) :
        (catalog[p] # {} /\ Drained) => PublishDone(p)

\* the step has taken the transition out of the BLEND stage of period p
BlendStageFired(p) ==
    LET key == StageKey("blend", p)
    IN /\ Has(fired', key)
       /\ fired'[key] > (IF NextBlendRan(p) /\ MergesFound(acts', QUALITY, p) THEN 0
                         ELSE Get(fired, key, 0))

\* the step has taken the transition out of the POSBLEND stage of period p
PosblendStageFired(p) ==
    LET key == StageKey("posblend", p)
    IN /\ Has(fired', key)
       /\ fired'[key] > (IF NextPosblendRan(p) THEN 0 ELSE Get(fired, key, 0))

\* C36: when the BLEND stage of a (tile, period) completes and no band
\* expression is configured, next_step emits the PUBLISH activity at once, and
\* neither a POSBLEND counter row nor a POSBLEND activity is written; with a
\* band expression configured, a PUBLISH activity is emitted only in the
\* transition out of the POSBLEND stage.
C36_PublishAfterBlend ==
    [][\A p \in Range(PERIODS) :
         /\ (BlendStageFired(p) /\ exprs = {}) =>
                /\ \E m \in BagToSet(sqs') :
                       /\ m.action = "publish" /\ m.start = PStart(p)
                       /\ CopiesIn(m, sqs') > CopiesIn(m, sqs)
                /\ ~Has(control', StageKey("posblend", p))
                /\ \A m \in BagToSet(sqs') : m.action # "posblend"
         /\ exprs # {} =>
                \A m \in BagToSet(sqs') :
                    (/\ m.action = "publish" /\ m.start = PStart(p)
                     /\ CopiesIn(m, sqs') > CopiesIn(m, sqs)) => PosblendStageFired(p)]_vars

\* the messages of the stage of counter key in a bag
StageMessages(bag, key) ==
    {m \in BagToSet(bag) : get_key_to_controltable(m) = key}

\* C37: the producer of a stage writes the counter row, with mycount = 0 and
\* the expected total, before it enqueues or skip-counts the first activity of
\* the stage: whenever a step has enqueued activities of a stage, the row of
\* the stage is there and counts nothing but the activities the step has
\* skip-counted, which with the enqueued ones are within its total; and every
\* next_step call for a completed activity finds the row of its stage.
C37_RowBeforeActivities ==
    [][/\ \A key \in {get_key_to_controltable(m) : m \in BagToSet(sqs')} :
              LET enqueued == Copies(sqs', StageMessages(sqs', key))
                                - Copies(sqs, StageMessages(sqs, key))
              IN enqueued > 0 =>
                     /\ Has(control', key)
                     /\ control'[key].mycount = Calls(calls'[key])
                     /\ control'[key].mycount + enqueued <= control'[key].total
       /\ \A id \in DOMAIN stream :
              LET activity == Head(stream[id])
              IN (/\ Solo(id) /\ activity.mystatus = "DONE"
                  /\ get_key_to_controltable(activity) # KeyError) =>
                     Has(control, get_key_to_controltable(activity))]_vars

\* in a second run the PUBLISH activity of a period waits in the queue while
\* the counter row of its stage, put again, counts nothing yet
C37_Witness ==
    \E m \in BagToSet(sqs) :
        /\ m.action = "publish" /\ run.n = 2
        /\ Has(control, m.dynamoKey)
        /\ control[m.dynamoKey].mycount = 0 /\ control[m.dynamoKey].total = 1
        /\ Has(acts, <<m.dynamoKey, <<"ALLBANDS">>>>)

\* the stage and the (tile, period) of an activity
StageOf(activity) == <<activity.action, activity.tileid, activity.period>>

\* C38: get_key_to_controltable maps an activity to the id under which the
\* producer of its stage put the counter row, whatever its band and date and
\* whatever the strings of the cube name and the tile id; two activities have
\* the same counter key exactly when they are of the same stage and the same
\* (tile, period).
C38_OneKeyPerStage ==
    call_st.pc = "keyed" =>
        /\ call_st.key_a = producer_key(call_in, call_st.a)
        /\ (StageOf(call_st.a) = StageOf(call_st.b)) <=> (call_st.key_a = call_st.key_b)

\* the date keys of the scenes of a period in the score of the tile
ScoreDates(p) ==
    IF catalog[p].scenes = <<>> THEN <<>>
    ELSE dataset_dates(Head(catalog[p].scenes)[2])

\* C39: a MERGE activity emitted by prepare_merge carries only data of its own
\* (tile, period, band, dataset, date): its source_nodata is the one its own
\* scenes declare and is absent when they declare none, and its list_dates are
\* the dates of its own period.
C39_OwnDataOnly ==
    \A m \in BagToSet(sqs) :
        m.action = "merge" =>
            /\ m.source_nodata = SceneNodata(m.band)
            /\ m.list_dates = ScoreDates(m.period)

\* the object keys the blend worker writes for an activity
BlendWrites(activity) == Range(blend_outputs(activity)) \ {<<>>}

\* C40: no two BLEND activities of the same (tile, period) write the same object
\* key: the objects the blend worker writes for one sk and those it writes for
\* another sk are disjoint.
C40_DisjointOutputs ==
    \A p \in Range(PERIODS) :
        \A a, b \in BlendMessages(sqs, p) :
            a.sk # b.sk => BlendWrites(a) \cap BlendWrites(b) = {}

====
